---- MODULE Spec2Model ----
(***************************************************************************)
(* A model of obsidian-daily-orbit's time-indexed core:                    *)
(*   - Timewalk (the waypoint graph and its traversal engine),              *)
(*   - TimewalkService (the index rebuilt from the vault listing),          *)
(*   - buildGlobalTimeline (the gap-collapsing timeline builder).           *)
(*                                                                         *)
(* Time values are Date.getTime() results counted in hours (one unit is    *)
(* 3600000 ms); every Date the program builds is a whole number of hours.  *)
(* An Invalid Date (getTime() is NaN) is the value NaN.  A path is the     *)
(* sequence of its characters.  A formatted date 'YYYY-MM-DD' is the triple *)
(* <<year, month, day>>.                                                    *)
(***************************************************************************)
EXTENDS Integers, Sequences, FiniteSets, TLC

VARIABLES
    tz,           \* the user's local UTC offset in hours (local = UTC + tz)
    vault,        \* Vault.getMarkdownFiles(): the listing, a sequence of paths
    timewalkRoot, \* TimewalkService.timewalk: the root of the current graph
    waypointMap,  \* TimewalkService.waypointMap: path -> leaf waypoint
    res,          \* the service call in progress and what it returns, or idle
    graph,        \* a Timewalk built through the library's own API
    nextId,       \* the next identifier handed to a waypoint of graph
    out,          \* the Timewalk call on graph in progress and what it returns
    timewalkId,   \* which Timewalk object TimewalkService.timewalk refers to
    held,         \* a reference a caller keeps from getTimewalk(), or none
    deletedLeaves, \* the leaves of timewalkRoot whose TFile has been deleted
    views,        \* the workspace's markdown views: file, title bar, handlers
    activeLeaf,   \* workspace.activeLeaf
    navbars,      \* DailyOrbitPlugin.navbars: id -> DailyOrbit
    nextNavbarId, \* DailyOrbitPlugin.nextNavbarId
    tasks,        \* addDailyOrbit calls suspended at their await
    documentNavigations,  \* DailyOrbitPlugin.documentNavigations
    nextDocNavId,         \* DailyOrbitPlugin.nextDocNavId
    pendingDocNavTimeout, \* DailyOrbitPlugin.pendingDocNavTimeout
    timers,       \* the timeouts set and neither fired nor cleared
    saving,       \* the handlers waiting for saveSettings() to finish
    saves,        \* how many times saveSettings() has been called
    settings,     \* DailyOrbitPlugin.settings
    hasDependencies, \* whether a daily-notes or periodic-notes plugin is on
    scope,        \* how far the environment goes in this run of the plugin
    pres          \* what the plugin's last handler did

vars == <<tz, vault, timewalkRoot, waypointMap, res, graph, nextId, out,
          timewalkId, held, deletedLeaves, views, activeLeaf, navbars, nextNavbarId, tasks,
          documentNavigations, nextDocNavId, pendingDocNavTimeout, timers,
          saving, saves, settings, hasDependencies, scope, pres>>

configVars == <<settings, hasDependencies, scope>>

pluginVars == <<views, activeLeaf, navbars, nextNavbarId, tasks,
                documentNavigations, nextDocNavId, pendingDocNavTimeout,
                timers, saving, saves, configVars, pres>>

(***************************************************************************)
(* Bounds of the model.                                                    *)
(***************************************************************************)
MaxFiles == 3
MaxNodes == 4

TZOffsets == {0 - 5, 0, 9}

(***************************************************************************)
(* Dates.                                                                  *)
(***************************************************************************)
NaN == -999999
Undefined == -888888
HoursPerDay == 24

IsNaN(t) == t = NaN

RangeOf(s) == {s[i] : i \in DOMAIN s}

MinOf(S) == CHOOSE x \in S : \A y \in S : x <= y

\* Number of days from 1970-01-01 to the civil date y-m-d (proleptic Gregorian).
DaysFromCivil(y, m, d) ==
    LET yy  == IF m <= 2 THEN y - 1 ELSE y
        era == yy \div 400
        yoe == yy - era * 400
        mp  == IF m > 2 THEN m - 3 ELSE m + 9
        doy == (153 * mp + 2) \div 5 + d - 1
        doe == yoe * 365 + yoe \div 4 - yoe \div 100 + doy
    IN  era * 146097 + doe - 719468

\* The civil date <<year, month, day>> of a day number.
CivilFromDays(z0) ==
    LET z   == z0 + 719468
        era == z \div 146097
        doe == z - era * 146097
        yoe == (doe - doe \div 1460 + doe \div 36524 - doe \div 146096) \div 365
        doy == doe - (365 * yoe + yoe \div 4 - yoe \div 100)
        mp  == (5 * doy + 2) \div 153
        d   == doy - (153 * mp + 2) \div 5 + 1
        m   == IF mp < 10 THEN mp + 3 ELSE mp - 9
        y   == yoe + era * 400 + (IF m <= 2 THEN 1 ELSE 0)
    IN  <<y, m, d>>

\* Date.UTC(year, monthIndex, day): out-of-range months and days roll over,
\* and a year of 0..99 means 1900 + year.
DateUTC(year, monthIndex, day) ==
    LET y  == IF year >= 0 /\ year <= 99 THEN 1900 + year ELSE year
        ym == y + monthIndex \div 12
        mn == monthIndex % 12
    IN  (DaysFromCivil(ym, mn + 1, 1) + day - 1) * HoursPerDay

\* CivilFromDays, tabulated once for the days around the dates of the model.
CivilTable ==
    [z \in (0 - 3 .. 8) \cup (20085 .. 20100) |-> CivilFromDays(z)]

CivilOf(z) == IF z \in DOMAIN CivilTable THEN CivilTable[z] ELSE CivilFromDays(z)

\* <<getFullYear(), getMonth() + 1, getDate()>> of a Date in the local zone;
\* each field of an Invalid Date is NaN.
LocalFields(t, zone) ==
    IF IsNaN(t) THEN <<NaN, NaN, NaN>>
    ELSE CivilOf((t + zone) \div HoursPerDay)

\* moment.utc(t).format('YYYY-MM-DD')
FormatUTC(t) == LocalFields(t, 0)

\* moment(t).format('YYYY-MM-DD'), a moment in local mode
FormatLocal(t, zone) == LocalFields(t, zone)

\* isSameDay(date1, date2): NaN === NaN is false.
IsSameDay(date1, date2, zone) ==
    LET a == LocalFields(date1, zone)
        b == LocalFields(date2, zone)
    IN  /\ ~IsNaN(date1)
        /\ ~IsNaN(date2)
        /\ a[1] = b[1]
        /\ a[2] = b[2]
        /\ a[3] = b[3]

\* a.diff(b, 'days') of two moments in UTC mode: the whole days, truncated
\* towards zero.
DiffDays(a, b) ==
    IF a - b >= 0 THEN (a - b) \div HoursPerDay
    ELSE 0 - ((b - a) \div HoursPerDay)

(***************************************************************************)
(* Paths and the daily-note pattern.                                       *)
(***************************************************************************)
Digits == {"0", "1", "2", "3", "4", "5", "6", "7", "8", "9"}

Letters == {"a", "b", "c", "d", "e", "f", "g", "h", "i", "j", "k", "l", "m",
            "n", "o", "p", "q", "r", "s", "t", "u", "v", "w", "x", "y", "z",
            "A", "B", "C", "D", "E", "F", "G", "H", "I", "J", "K", "L", "M",
            "N", "O", "P", "Q", "R", "S", "T", "U", "V", "W", "X", "Y", "Z"}

\* \d, \w and \s of the regular expressions
IsDigit(c) == c \in Digits
IsWord(c) == c \in Digits \cup Letters \cup {"_"}
\* A character of a path is a string: the character itself when it is an
\* ASCII character, and the name of its code point otherwise ("U+2003" for
\* the em space, "U+00E9" for e acute).
\* \s: the white space of the language, that is the tab, the line feed, the
\* vertical tab, the form feed, the carriage return, the space, the no-break
\* space, the byte order mark, the line and paragraph separators and the
\* space separators of Unicode.
WhiteSpace ==
    {"\t", "\n", "", "\f", "\r", " ", "U+00A0", "U+1680",
     "U+2000", "U+2001", "U+2002", "U+2003", "U+2004", "U+2005", "U+2006",
     "U+2007", "U+2008", "U+2009", "U+200A", "U+2028", "U+2029", "U+202F",
     "U+205F", "U+3000", "U+FEFF"}

IsSpace(c) == c \in WhiteSpace

DigitValue(c) ==
    CASE c = "0" -> 0 [] c = "1" -> 1 [] c = "2" -> 2 [] c = "3" -> 3
      [] c = "4" -> 4 [] c = "5" -> 5 [] c = "6" -> 6 [] c = "7" -> 7
      [] c = "8" -> 8 [] c = "9" -> 9

\* parseInt of a string of decimal digits
RECURSIVE ParseInt(_)
ParseInt(s) ==
    IF Len(s) = 0 THEN 0
    ELSE 10 * ParseInt(SubSeq(s, 1, Len(s) - 1)) + DigitValue(s[Len(s)])

\* The first position at or after i whose character is not in the class.
RECURSIVE SkipSpace(_, _)
SkipSpace(s, i) ==
    IF i <= Len(s) /\ IsSpace(s[i]) THEN SkipSpace(s, i + 1) ELSE i

RECURSIVE SkipWord(_, _)
SkipWord(s, i) ==
    IF i <= Len(s) /\ IsWord(s[i]) THEN SkipWord(s, i + 1) ELSE i

AllDigits(s, i, n) ==
    /\ i + n - 1 <= Len(s)
    /\ \A k \in i .. (i + n - 1) : IsDigit(s[k])

CharAt(s, i, c) == i <= Len(s) /\ s[i] = c

\* /(\d{4})\/(\d{2})\.\s*\w+\/(\d{2})\s+\w+/ tried at position i: the position
\* after the match, or 0 when the pattern does not match there.  The classes
\* \s, \w and the literals are disjoint, so greedy matching never backtracks.
MatchAt(s, i) ==
    LET w1 == SkipSpace(s, i + 8)
        w2 == SkipWord(s, w1)
        s1 == SkipSpace(s, w2 + 3)
        e  == SkipWord(s, s1)
    IN  IF /\ AllDigits(s, i, 4)
           /\ CharAt(s, i + 4, "/")
           /\ AllDigits(s, i + 5, 2)
           /\ CharAt(s, i + 7, ".")
           /\ w2 > w1
           /\ CharAt(s, w2, "/")
           /\ AllDigits(s, w2 + 1, 2)
           /\ s1 > w2 + 3
           /\ e > s1
        THEN e
        ELSE 0

\* dailyNotePattern.test(path): /...\.md$/ matches somewhere and ends the path.
DailyNotePatternTest(path) ==
    \E i \in 1 .. Len(path) :
        LET e == MatchAt(path, i)
        IN  /\ e # 0
            /\ e + 2 = Len(path)
            /\ path[e] = "."
            /\ path[e + 1] = "m"
            /\ path[e + 2] = "d"

\* path.match(/.../): the leftmost match, as <<year, month, day>> strings,
\* or <<>> (null) when there is none.
PathMatch(path) ==
    LET starts == {i \in 1 .. Len(path) : MatchAt(path, i) # 0}
    IN  IF starts = {} THEN <<>>
        ELSE LET i  == MinOf(starts)
                 w1 == SkipSpace(path, i + 8)
                 w2 == SkipWord(path, w1)
             IN  <<SubSeq(path, i, i + 3),
                   SubSeq(path, i + 5, i + 6),
                   SubSeq(path, w2 + 1, w2 + 2)>>

\* The date rebuild() gives a path that matched: UTC midnight.
DateOfMatch(m) == DateUTC(ParseInt(m[1]), ParseInt(m[2]) - 1, ParseInt(m[3]))

\* The paths the vault may hold.
\* 2025/01. Jan/01 Wed.md
PathJan01 ==
    <<"2", "0", "2", "5", "/", "0", "1", ".", " ", "J", "a", "n", "/", "0", "1", " ", "W", "e", "d", ".", "m", "d">>

\* 2025/01. Jan/02 Thu.md
PathJan02 ==
    <<"2", "0", "2", "5", "/", "0", "1", ".", " ", "J", "a", "n", "/", "0", "2", " ", "T", "h", "u", ".", "m", "d">>

\* 2025/01. Jan/03 Fri.md
PathJan03 ==
    <<"2", "0", "2", "5", "/", "0", "1", ".", " ", "J", "a", "n", "/", "0", "3", " ", "F", "r", "i", ".", "m", "d">>

\* 2025/01. Jan/05 Sun.md
PathJan05 ==
    <<"2", "0", "2", "5", "/", "0", "1", ".", " ", "J", "a", "n", "/", "0", "5", " ", "S", "u", "n", ".", "m", "d">>

\* b/2025/01. Jan/05 Sun.md
PathJan05b ==
    <<"b", "/", "2", "0", "2", "5", "/", "0", "1", ".", " ", "J", "a", "n", "/", "0", "5", " ", "S", "u", "n", ".", "m", "d">>

\* notes/random.md
PathRandom ==
    <<"n", "o", "t", "e", "s", "/", "r", "a", "n", "d", "o", "m", ".", "m", "d">>

\* 2025/01. Jan/02 Thu/2025/01. Jan/03 Fri.md: a note of 01-03 in a folder
\* whose own name reads like a daily note.
PathNested ==
    <<"2", "0", "2", "5", "/", "0", "1", ".", " ", "J", "a", "n", "/", "0", "2", " ", "T", "h", "u", "/", "2", "0", "2", "5", "/", "0", "1", ".", " ", "J", "a", "n", "/", "0", "3", " ", "F", "r", "i", ".", "m", "d">>

\* 2024/13. Foo/04 Sat.md: month 13 is not a month of the calendar.
PathMonth13 ==
    <<"2", "0", "2", "4", "/", "1", "3", ".", " ", "F", "o", "o", "/", "0", "4", " ", "S", "a", "t", ".", "m", "d">>

PathPool ==
    {PathJan01, PathJan02, PathJan03, PathJan05, PathJan05b, PathRandom,
     PathNested, PathMonth13}

\* 2025/01. Jan/01 Wed x.md: a markdown file whose name goes on after the
\* weekday.
PathTrailing ==
    <<"2", "0", "2", "5", "/", "0", "1", ".", " ", "J", "a", "n", "/", "0", "1", " ", "W", "e", "d", " ", "x", ".", "m", "d">>

\* The files getDailyNoteDate may be asked about: any file of the workspace.
\* 2025/01.<tab>Jan/01<tab>Wed.md: tabs where the other paths have spaces.
PathTab ==
    <<"2", "0", "2", "5", "/", "0", "1", ".", "\t", "J", "a", "n", "/", "0", "1", "\t", "W", "e", "d", ".", "m", "d">>

\* 2025/01.<em space>Jan/01<em space>Wed.md
PathEmSpace ==
    <<"2", "0", "2", "5", "/", "0", "1", ".", "U+2003", "J", "a", "n", "/", "0", "1", "U+2003", "W", "e", "d", ".", "m", "d">>

\* 2025/01.<e acute>Jan/01 Wed.md: a letter outside ASCII is neither \s nor \w.
PathAccent ==
    <<"2", "0", "2", "5", "/", "0", "1", ".", "U+00E9", "J", "a", "n", "/", "0", "1", " ", "W", "e", "d", ".", "m", "d">>

FilePool == PathPool \cup {PathTrailing, PathTab, PathEmSpace, PathAccent}

(***************************************************************************)
(* Waypoints.  A waypoint is a record: a leaf carries its Date in time, a   *)
(* GroupWaypoint its optional groupTime (Undefined when none was given).   *)
(***************************************************************************)
\* new StringWaypoint(id, date), new ObsidianFileWaypoint(file, date)
LeafWaypoint(id, date) ==
    [id |-> id, isContainer |-> FALSE, time |-> date, kids |-> <<>>]

\* new GroupWaypoint(id, childNodes, groupTime)
GroupWaypoint(id, childNodes, groupTime) ==
    [id |-> id, isContainer |-> TRUE, time |-> groupTime, kids |-> childNodes]

\* Waypoint.time().getTime(): a leaf's date; a group's explicit time, else the
\* earliest valid time of its children, else the epoch.
RECURSIVE TimeOf(_)
TimeOf(w) ==
    IF ~w.isContainer THEN w.time
    ELSE IF w.time # Undefined THEN w.time
    ELSE LET times == {TimeOf(w.kids[i]) : i \in DOMAIN w.kids} \ {NaN}
         IN  IF times # {} THEN MinOf(times) ELSE 0

\* GroupWaypoint.addChild, applied to the group named parentId inside w.
RECURSIVE AddChild(_, _, _)
AddChild(w, parentId, child) ==
    IF ~w.isContainer THEN w
    ELSE IF w.id = parentId THEN [w EXCEPT !.kids = Append(@, child)]
    ELSE [w EXCEPT !.kids = [i \in DOMAIN @ |-> AddChild(@[i], parentId, child)]]

RECURSIVE Concat(_)
Concat(ss) == IF Len(ss) = 0 THEN <<>> ELSE Head(ss) \o Concat(Tail(ss))

\* Timewalk.collectAllChildren: the pre-order flattening, the waypoint first.
RECURSIVE CollectAllChildren(_)
CollectAllChildren(waypoint) ==
    <<waypoint>> \o
        (IF waypoint.isContainer
         THEN Concat([i \in DOMAIN waypoint.kids |->
                         CollectAllChildren(waypoint.kids[i])])
         ELSE <<>>)

(***************************************************************************)
(* Timewalk.traverse                                                       *)
(***************************************************************************)
Directions == {"past", "future"}
Filters == {"all", "leaves", "containers"}

\* Mutant of TraverseKeeps: the two kind tests exchanged.
TraverseKeepsKindSwapped(node, filter, includeNonCalendar) ==
    /\ ~(filter = "leaves" /\ ~node.isContainer)
    /\ ~(filter = "containers" /\ node.isContainer)
    /\ ~(/\ ~includeNonCalendar
         /\ ~node.isContainer
         /\ (TimeOf(node) = 0 \/ IsNaN(TimeOf(node))))

\* The filter callback of traverse: by kind, then by calendar validity.
TraverseKeeps(node, filter, includeNonCalendar) ==
    /\ ~(filter = "leaves" /\ node.isContainer)
    /\ ~(filter = "containers" /\ ~node.isContainer)
    /\ ~(/\ ~includeNonCalendar
         /\ ~node.isContainer
         /\ (TimeOf(node) = 0 \/ IsNaN(TimeOf(node))))

TraverseFiltered(root, filter, includeNonCalendar) ==
    SelectSeq(CollectAllChildren(root),
              LAMBDA node : TraverseKeeps(node, filter, includeNonCalendar))

\* The sort callback: a positive result puts a after b.  With an Invalid Date
\* on either side the difference is NaN, which sort takes as 0.
CompareByTime(a, b, direction) ==
    LET timeA == TimeOf(a)
        timeB == TimeOf(b)
    IN  IF IsNaN(timeA) \/ IsNaN(timeB) THEN 0
        ELSE IF direction = "past" THEN timeB - timeA ELSE timeA - timeB

\* x put into a sorted sequence after every element that does not compare
\* greater: Array.prototype.sort is stable.
RECURSIVE InsertSorted(_, _, _)
InsertSorted(sorted, x, direction) ==
    IF Len(sorted) = 0 THEN <<x>>
    ELSE IF CompareByTime(sorted[Len(sorted)], x, direction) <= 0
         THEN Append(sorted, x)
         ELSE Append(InsertSorted(SubSeq(sorted, 1, Len(sorted) - 1), x, direction),
                     sorted[Len(sorted)])

RECURSIVE StableSort(_, _)
StableSort(s, direction) ==
    IF Len(s) = 0 THEN <<>>
    ELSE InsertSorted(StableSort(SubSeq(s, 1, Len(s) - 1), direction),
                      s[Len(s)], direction)

PermutationsOf(s) ==
    {[i \in DOMAIN s |-> s[p[i]]] : p \in Permutations(DOMAIN s)}

\* filtered.sort(...): the orders sort may leave.  With valid times the
\* callback is a consistent comparator and the stable order is the only one;
\* with an Invalid Date among them it is not, and the order is left to the
\* implementation.
SortOutcomes(filtered, direction) ==
    IF \E i \in DOMAIN filtered : IsNaN(TimeOf(filtered[i]))
    THEN PermutationsOf(filtered)
    ELSE {StableSort(filtered, direction)}

\* The sequences of waypoints one traverse call may hand to its callback.
TraverseOutcomes(root, direction, filter, includeNonCalendar) ==
    SortOutcomes(TraverseFiltered(root, filter, includeNonCalendar), direction)

(***************************************************************************)
(* Timewalk.navigate and Timewalk.find                                     *)
(***************************************************************************)
NotFound == <<>>

\* Mutant of TimewalkNavigate: containers are not skipped.
TimewalkNavigateAnyNode(root, targetTime) ==
    LET hits == SelectSeq(CollectAllChildren(root),
                          LAMBDA node : /\ ~IsNaN(targetTime)
                                        /\ TimeOf(node) = targetTime)
    IN  IF Len(hits) = 0 THEN NotFound ELSE <<hits[1]>>

\* Mutant of TimewalkNavigate: NaN === NaN taken to be true.
TimewalkNavigateNaNEqual(root, targetTime) ==
    LET hits == SelectSeq(CollectAllChildren(root),
                          LAMBDA node : /\ ~node.isContainer
                                        /\ TimeOf(node) = targetTime)
    IN  IF Len(hits) = 0 THEN NotFound ELSE <<hits[1]>>

\* navigate(targetTime): the first leaf with exactly that time, in a
\* one-element sequence, or NotFound (null).
TimewalkNavigate(root, targetTime) ==
    LET hits == SelectSeq(CollectAllChildren(root),
                          LAMBDA node : /\ ~node.isContainer
                                        /\ ~IsNaN(targetTime)
                                        /\ TimeOf(node) = targetTime)
    IN  IF Len(hits) = 0 THEN NotFound ELSE <<hits[1]>>

\* Mutant of TimewalkFind: the times compared, not their days.
TimewalkFindExactTime(root, targetTime, zone) ==
    SelectSeq(CollectAllChildren(root),
              LAMBDA node : /\ ~node.isContainer
                            /\ ~IsNaN(targetTime)
                            /\ TimeOf(node) = targetTime)

\* find(targetTime): every leaf on the local calendar day of targetTime.
TimewalkFind(root, targetTime, zone) ==
    SelectSeq(CollectAllChildren(root),
              LAMBDA node : /\ ~node.isContainer
                            /\ IsSameDay(TimeOf(node), targetTime, zone))

(***************************************************************************)
(* TimewalkService                                                         *)
(***************************************************************************)
\* 'daily-notes', the identifier of the root group
RootId == <<"d", "a", "i", "l", "y", "-", "n", "o", "t", "e", "s">>

\* A TFile | null result: the file's path, or Null.
Null == <<>>

EmptyMap == <<>>

\* Map.set(key, value)
MapSet(map, key, value) ==
    [k \in DOMAIN map \cup {key} |-> IF k = key THEN value ELSE map[k]]

PatternTable ==
    [path \in FilePool |->
        [test |-> DailyNotePatternTest(path), match |-> PathMatch(path)]]

\* Mutant of FreshIndex: rebuild() goes on with the root it had.
KeptIndex(oldRoot, oldMap) == [root |-> oldRoot, map |-> EmptyMap]

\* rebuild() starts from a new root group and the cleared map.
FreshIndex(oldRoot, oldMap) ==
    [root |-> GroupWaypoint(RootId, <<>>, Undefined), map |-> EmptyMap]

\* The loop of rebuild() over matchingFiles: a leaf at UTC midnight for each
\* file whose path matches, appended to the root and put into the map.
RECURSIVE RebuildLoop(_, _)
RebuildLoop(matchingFiles, index) ==
    IF Len(matchingFiles) = 0 THEN index
    ELSE LET file      == Head(matchingFiles)
             pathMatch == PatternTable[file].match
             waypoint  == LeafWaypoint(file, DateOfMatch(pathMatch))
         IN  IF pathMatch # <<>>
             THEN RebuildLoop(Tail(matchingFiles),
                              [root |-> AddChild(index.root, RootId, waypoint),
                               map  |-> MapSet(index.map, file, waypoint)])
             ELSE RebuildLoop(Tail(matchingFiles), index)

\* What rebuild() leaves in timewalk and waypointMap, given the listing.
RebuildIndex(allFiles, oldRoot, oldMap) ==
    RebuildLoop(SelectSeq(allFiles, LAMBDA file : PatternTable[file].test),
                FreshIndex(oldRoot, oldMap))

\* A moment | null result: the instant of the moment, or NullMoment.
NullMoment == -777777

\* moment(dateStr, "YYYY-MM-DD").isValid(): the month and the day of the
\* month must exist.
MomentIsValid(year, month, day) ==
    /\ month \in 1 .. 12
    /\ day >= 1
    /\ day <= DaysFromCivil(IF month = 12 THEN year + 1 ELSE year,
                            IF month = 12 THEN 1 ELSE month + 1, 1)
                - DaysFromCivil(year, month, 1)

\* getDailyNoteDate(file): the date of the cached waypoint, else the date
\* parsed from the path as a local date, else null.
GetDailyNoteDate(map, path, zone) ==
    IF path \in DOMAIN map THEN TimeOf(map[path])
    ELSE LET pathMatch == PatternTable[path].match
             year      == ParseInt(pathMatch[1])
             month     == ParseInt(pathMatch[2])
             day       == ParseInt(pathMatch[3])
         IN  IF pathMatch # <<>> /\ MomentIsValid(year, month, day)
             THEN DaysFromCivil(year, month, day) * HoursPerDay - zone
             ELSE NullMoment

\* Mutant of FindDailyNote: the last result, not the first.
FindDailyNoteLast(root, date, zone) ==
    LET results == TimewalkFind(root, date, zone)
    IN  IF Len(results) > 0 THEN results[Len(results)].id ELSE Null

\* findDailyNote(date): date.toDate() handed to find, the first hit's file.
FindDailyNote(root, date, zone) ==
    LET results == TimewalkFind(root, date, zone)
    IN  IF Len(results) > 0 THEN results[1].id ELSE Null

\* Mutant of HasDailyNote: the result compared with undefined, not null.
HasDailyNoteNotUndefined(root, date, zone) == TRUE

HasDailyNote(root, date, zone) == FindDailyNote(root, date, zone) # Null

\* The callback of traverse in getSortedWaypoints and buildGlobalTimeline
\* collects the visited waypoints: { direction: 'future', filter: 'leaves' }.
\* No Invalid Date survives that filter, so the order is the stable one.
ChronologicalLeaves(root) ==
    StableSort(TraverseFiltered(root, "leaves", FALSE), "future")

\* getSortedWaypoints(currentDate): findIndex gives the first waypoint on the
\* local day of currentDate, counted from 0, or -1.
GetSortedWaypoints(root, currentDate, zone) ==
    LET waypoints == ChronologicalLeaves(root)
        hits == {i \in DOMAIN waypoints :
                    IsSameDay(TimeOf(waypoints[i]), currentDate, zone)}
    IN  [waypoints |-> waypoints,
         currentIndex |-> IF hits = {} THEN 0 - 1 ELSE MinOf(hits) - 1]

\* waypoints[k] of a JavaScript array
At(waypoints, k) == waypoints[k + 1]

GetPreviousDailyNote(root, currentDate, zone) ==
    LET sw == GetSortedWaypoints(root, currentDate, zone)
    IN  IF sw.currentIndex > 0
        THEN At(sw.waypoints, sw.currentIndex - 1).id
        ELSE Null

\* Mutant of GetNextDailyNote: no test for currentIndex being -1.
GetNextDailyNoteUnguarded(root, currentDate, zone) ==
    LET sw == GetSortedWaypoints(root, currentDate, zone)
    IN  IF sw.currentIndex < Len(sw.waypoints) - 1
        THEN At(sw.waypoints, sw.currentIndex + 1).id
        ELSE Null

GetNextDailyNote(root, currentDate, zone) ==
    LET sw == GetSortedWaypoints(root, currentDate, zone)
    IN  IF sw.currentIndex # 0 - 1 /\ sw.currentIndex < Len(sw.waypoints) - 1
        THEN At(sw.waypoints, sw.currentIndex + 1).id
        ELSE Null

(***************************************************************************)
(* buildGlobalTimeline                                                     *)
(***************************************************************************)
\* Mutant of NoteItem: the active and the current date are formatted in UTC
\* mode, like the waypoint's date.
NoteItemAllUTC(waypoint, activeDate, currentDate, zone) ==
    [type     |-> "note",
     date     |-> TimeOf(waypoint),
     file     |-> waypoint.id,
     isActive |-> FormatUTC(TimeOf(waypoint)) = FormatUTC(activeDate),
     isCurrent |-> FormatUTC(TimeOf(waypoint)) = FormatUTC(currentDate)]

\* The note item of a waypoint.  activeDate and currentDate are moments in
\* local mode, the waypoint's date a moment in UTC mode.
NoteItem(waypoint, activeDate, currentDate, zone) ==
    [type     |-> "note",
     date     |-> TimeOf(waypoint),
     file     |-> waypoint.id,
     isActive |-> FormatUTC(TimeOf(waypoint)) = FormatLocal(activeDate, zone),
     isCurrent |-> FormatUTC(TimeOf(waypoint)) = FormatLocal(currentDate, zone)]

\* Mutant of DaysBetween: the difference itself, not the days in between.
DaysBetweenInclusive(waypointDate, nextDate) == DiffDays(nextDate, waypointDate)

\* nextDate.diff(waypointDate, 'days') - 1
DaysBetween(waypointDate, nextDate) == DiffDays(nextDate, waypointDate) - 1

\* Mutant of GapItems: a gap is pushed when daysBetween is 0 as well.
GapItemsNonNegative(waypoints, i) ==
    IF i < Len(waypoints)
    THEN LET waypointDate == TimeOf(waypoints[i])
             daysBetween  == DaysBetween(waypointDate, TimeOf(waypoints[i + 1]))
         IN  IF daysBetween >= 0
             THEN <<[type     |-> "gap",
                     date     |-> waypointDate + HoursPerDay,
                     gapCount |-> daysBetween]>>
             ELSE <<>>
    ELSE <<>>

\* The gap item pushed after waypoint i, if any.
GapItems(waypoints, i) ==
    IF i < Len(waypoints)
    THEN LET waypointDate == TimeOf(waypoints[i])
             daysBetween  == DaysBetween(waypointDate, TimeOf(waypoints[i + 1]))
         IN  IF daysBetween > 0
             THEN <<[type     |-> "gap",
                     date     |-> waypointDate + HoursPerDay,
                     gapCount |-> daysBetween]>>
             ELSE <<>>
    ELSE <<>>

BuildGlobalTimeline(root, activeDate, currentDate, zone) ==
    LET waypoints == ChronologicalLeaves(root)
    IN  Concat([i \in DOMAIN waypoints |->
                   <<NoteItem(waypoints[i], activeDate, currentDate, zone)>>
                   \o GapItems(waypoints, i)])

(***************************************************************************)
(* The service and its vault: the state machine Spec.                      *)
(***************************************************************************)
\* The listings of at most n distinct paths of the pool, in any order.
RECURSIVE Listings(_)
Listings(n) ==
    IF n = 0 THEN {<<>>}
    ELSE LET shorter == Listings(n - 1)
             longest == {v \in shorter : Len(v) = n - 1}
         IN  shorter \cup
             UNION {{Append(v, path) : path \in PathPool \ RangeOf(v)} :
                       v \in longest}

Jan2025(day) == DateUTC(2025, 0, day)

\* The dates handed to the queries: UTC midnight of a day (what the index
\* holds), local midnight of that day, and an invalid date.
QueryDays == {1, 2, 3, 5}

QueryDates ==
    [zone \in TZOffsets |->
        {Jan2025(d) : d \in QueryDays} \cup {Jan2025(d) - zone : d \in QueryDays}
            \cup {NaN}]

\* moment(): now, some time of a local day.
TodayDates ==
    [zone \in TZOffsets |-> {Jan2025(2) - zone + 12, Jan2025(5) - zone + 23}]

EmptyRoot == GroupWaypoint(RootId, <<>>, Undefined)

EmptyGraph == GroupWaypoint(0, <<>>, Undefined)

(***************************************************************************)
(* The plugin's own state.  A view is the MarkdownView of a leaf: the file *)
(* it shows, the navbar elements in its title bar (by navbar id, in        *)
(* document order), the navbar whose constructor last assigned             *)
(* view.onunload, and the document navigations whose removal was           *)
(* registered on it.                                                       *)
(***************************************************************************)
Views == {1}

NoLeaf == 0
NoId == 0 - 1
NoTimeout == 0

\* A view with no file: titleContainers is the number of elements of class
\* view-header-title-container in it.  file is the path of the TFile the
\* view holds, fileGone says that this TFile has been deleted: it keeps its
\* path, and a file created later at that path is another TFile.
EmptyView ==
    [file |-> Null, fileGone |-> FALSE, loaded |-> TRUE, dom |-> <<>>,
     onunload |-> NoId, cleanups |-> {}, titleContainers |-> 1]

NavbarModes == {"weekly", "global"}

\* DEFAULT_SETTINGS, the part DailyOrbit reads for its content
DefaultSettings == [navbarMode |-> "weekly"]

EmptyRegistry == [id \in {} |-> Null]

MaxDocNavIds == 2
MaxTasks == 2
MaxSaving == 1
MaxSaves == 2
FewTasks == 1
FewDocNavIds == 1

\* The runs of the plugin are of three kinds, and scope says which one a run
\* is: modes holds the values of navbarMode the stored settings may have,
\* plugins whether a daily-notes or periodic-notes plugin may be on or off,
\* containers how many title containers a view may have;
\* tasks bounds the addDailyOrbit calls suspended at once, docNavs the
\* document navigations created, saves the calls of saveSettings(); open
\* says whether a file may be deleted while a view shows it, throws
\* whether vault.getMarkdownFiles() may throw, and others whether the vault
\* gets files that are not daily notes.  In a run of kind
\* "workspace" the calls of the workspace's handlers overlap, with the
\* plugins and the title bar of any kind; in one of kind "settings" modes are
\* toggled and settings changed; in one of kind "vault" the stored mode is
\* 'global', open files are deleted, the listing of the vault may fail at
\* any call, and every file is a daily note.
\* Every handler runs in every kind.
Scopes ==
    {[kind |-> "workspace", modes |-> {DefaultSettings.navbarMode},
      plugins |-> BOOLEAN, containers |-> {1, 2},
      tasks |-> MaxTasks, docNavs |-> MaxDocNavIds, saves |-> 0,
      open |-> FALSE, throws |-> FALSE, others |-> TRUE],
     [kind |-> "settings", modes |-> {DefaultSettings.navbarMode},
      plugins |-> {TRUE}, containers |-> {1},
      tasks |-> FewTasks, docNavs |-> FewDocNavIds, saves |-> MaxSaves,
      open |-> FALSE, throws |-> FALSE, others |-> TRUE],
     [kind |-> "vault", modes |-> {"global"},
      plugins |-> {TRUE}, containers |-> {1},
      tasks |-> FewTasks, docNavs |-> FewDocNavIds, saves |-> 0,
      open |-> TRUE, throws |-> TRUE, others |-> FALSE]}

WorkspaceScope == CHOOSE limits \in Scopes : limits.kind = "workspace"

\* The fields after the class is constructed and onload() has run: no
\* navbar, no document navigation, no timeout; the settings as loaded, the
\* plugins and the views as the application has them.
PluginStarted(loaded, dependencies, containers, limits) ==
    /\ scope = limits
    /\ views = [v \in Views |-> [EmptyView EXCEPT !.titleContainers = containers]]
    /\ activeLeaf = NoLeaf
    /\ navbars = EmptyRegistry
    /\ nextNavbarId = 0
    /\ tasks = <<>>
    /\ documentNavigations = EmptyRegistry
    /\ nextDocNavId = 0
    /\ pendingDocNavTimeout = NoTimeout
    /\ timers = {}
    /\ saving = <<>>
    /\ saves = 0
    /\ settings = loaded
    /\ hasDependencies = dependencies
    /\ pres = [op |-> "workspace", threw |-> FALSE, removed |-> NoId,
               registered |-> TRUE, docNavRun |-> "none"]

PluginLoaded == PluginStarted(DefaultSettings, TRUE, 1, WorkspaceScope)

(***************************************************************************)
(* Timewalk objects.  rebuild() builds its graph under a root of its own   *)
(* and stores a Timewalk of its own in this.timewalk; getTimewalk() hands  *)
(* out the reference.  An object is named by a number; a number is free    *)
(* again once nothing refers to the object.                                *)
(***************************************************************************)
NoTimewalk == <<>>

\* The name of an object no reference of a caller points to.
FreshTimewalkId ==
    IF held # NoTimewalk /\ held.id = 1 THEN 2 ELSE 1

\* Mutant of NewTimewalk: rebuild() fills the Timewalk it already has.
SameTimewalk(current, fresh) == current

\* this.timewalk = new Timewalk(root): the object rebuild() leaves in
\* this.timewalk, given the one it had and an unused one.
NewTimewalk(current, fresh) == fresh

\* A graph of the service after the file at path from has got the path to.
\* A leaf keeps its TFile, and identifier() reads file.path when it is asked;
\* gone holds the positions of the leaves whose TFile has been deleted: such
\* a file keeps the path it had, and a file created later at that path is
\* another TFile.
RenameFile(root, gone, from, to) ==
    [root EXCEPT
        !.kids = [k \in DOMAIN root.kids |->
                     IF k \notin gone /\ root.kids[k].id = from
                     THEN [root.kids[k] EXCEPT !.id = to]
                     ELSE root.kids[k]]]

\* The reference a caller holds, once the file at from has been renamed.
HeldRenamed(from, to) ==
    IF held = NoTimewalk THEN held
    ELSE [held EXCEPT !.root = RenameFile(held.root, held.gone, from, to)]

\* The reference a caller holds, once the files at paths have been deleted.
HeldDeleted(paths) ==
    IF held = NoTimewalk THEN held
    ELSE [held EXCEPT !.gone = @ \cup {k \in DOMAIN held.root.kids :
                                          held.root.kids[k].id \in paths}]

\* The body of rebuild(), reading the listing allFiles, while a caller holds
\* heldNow.  A reference a caller holds sees the new graph only if it points
\* to the object rebuild() wrote.
RebuildHolding(allFiles, heldNow) ==
    \E index \in {RebuildIndex(allFiles, timewalkRoot, waypointMap)} :
        /\ timewalkRoot' = index.root
        /\ waypointMap' = index.map
        /\ timewalkId' = NewTimewalk(timewalkId, FreshTimewalkId)
        /\ held' = IF heldNow # NoTimewalk /\ heldNow.id = timewalkId'
                   THEN [heldNow EXCEPT !.root = index.root, !.gone = {}]
                   ELSE heldNow
        /\ deletedLeaves' = {}

\* rebuild() reading allFiles after the files of the listing that allFiles
\* no longer has were deleted.
RebuildState(allFiles) ==
    RebuildHolding(allFiles, HeldDeleted(RangeOf(vault) \ RangeOf(allFiles)))

\* new TimewalkService(vault): an empty timewalk, then rebuild().
Init ==
    /\ tz \in TZOffsets
    /\ vault \in Listings(MaxFiles)
    /\ \E index \in {RebuildIndex(vault, EmptyRoot, EmptyMap)} :
          /\ timewalkRoot = index.root
          /\ waypointMap = index.map
    /\ res = [op |-> "idle"]
    /\ graph = EmptyGraph
    /\ nextId = 1
    /\ out = [op |-> "idle"]
    /\ timewalkId = 1
    /\ held = NoTimewalk
    /\ deletedLeaves = {}
    /\ PluginLoaded

graphVars == <<graph, nextId, out>>
heapVars == <<timewalkId, held, deletedLeaves>>
serviceVars == <<vault, timewalkRoot, waypointMap, res, heapVars>>

\* rebuild(), reading the listing allFiles; event names the vault event whose
\* handler called it ("none" for a call with no event).
RebuildFrom(allFiles, event) ==
    /\ res.op = "idle"
    /\ RebuildState(allFiles)
    /\ res' = [op |-> "rebuild", event |-> event, threw |-> FALSE]

\* rebuild(), called with the listing unchanged
Rebuild ==
    /\ RebuildFrom(vault, "none")
    /\ UNCHANGED <<tz, vault, graphVars, pluginVars>>

\* rebuild() when vault.getMarkdownFiles() throws: the new root is a local
\* variable, the map has been cleared, and the exception leaves rebuild()
\* before timewalk is assigned.
RebuildThrows ==
    /\ res.op = "idle"
    /\ waypointMap' = EmptyMap
    /\ res' = [op |-> "rebuild", event |-> "none", threw |-> TRUE]
    /\ UNCHANGED <<tz, vault, timewalkRoot, graphVars, heapVars, pluginVars>>

\* A file is created, and the plugin's handler of the vault's "create" event
\* runs: it calls rebuild().
OnVaultCreate(path) ==
    /\ res.op = "idle"
    /\ Len(vault) < MaxFiles
    /\ path \notin RangeOf(vault)
    /\ vault' = Append(vault, path)
    /\ RebuildFrom(vault', "create")
    /\ UNCHANGED <<tz, graphVars, pluginVars>>

\* A file is deleted, and the handler of "delete" runs.
OnVaultDelete(i) ==
    /\ res.op = "idle"
    /\ vault' = SubSeq(vault, 1, i - 1) \o SubSeq(vault, i + 1, Len(vault))
    /\ RebuildFrom(vault', "delete")
    /\ UNCHANGED <<tz, graphVars, pluginVars>>

\* A file is renamed, and the handler of "rename" runs.
OnVaultRename(i, path) ==
    /\ res.op = "idle"
    /\ path \notin RangeOf(vault)
    /\ vault' = [vault EXCEPT ![i] = path]
    /\ RebuildHolding(vault', HeldRenamed(vault[i], path))
    /\ res' = [op |-> "rebuild", event |-> "rename", threw |-> FALSE]
    /\ UNCHANGED <<tz, graphVars, pluginVars>>

\* buildGlobalTimeline(timewalkService, activeDate, currentDate)
CallBuildGlobalTimeline(activeDate, currentDate) ==
    /\ res.op = "idle"
    /\ res' = [op |-> "timeline", activeDate |-> activeDate,
               currentDate |-> currentDate,
               items |-> BuildGlobalTimeline(timewalkRoot, activeDate,
                                             currentDate, tz)]
    /\ UNCHANGED <<tz, vault, timewalkRoot, waypointMap, graphVars, heapVars, pluginVars>>

CallGetDailyNoteDate(path) ==
    /\ res.op = "idle"
    /\ res' = [op |-> "date", file |-> path,
               date |-> GetDailyNoteDate(waypointMap, path, tz)]
    /\ UNCHANGED <<tz, vault, timewalkRoot, waypointMap, graphVars, heapVars, pluginVars>>

CallFindDailyNote(date) ==
    /\ res.op = "idle"
    /\ res' = [op |-> "find", date |-> date,
               file |-> FindDailyNote(timewalkRoot, date, tz)]
    /\ UNCHANGED <<tz, vault, timewalkRoot, waypointMap, graphVars, heapVars, pluginVars>>

CallHasDailyNote(date) ==
    /\ res.op = "idle"
    /\ res' = [op |-> "has", date |-> date,
               value |-> HasDailyNote(timewalkRoot, date, tz)]
    /\ UNCHANGED <<tz, vault, timewalkRoot, waypointMap, graphVars, heapVars, pluginVars>>

CallGetPreviousDailyNote(date) ==
    /\ res.op = "idle"
    /\ res' = [op |-> "previous", date |-> date,
               file |-> GetPreviousDailyNote(timewalkRoot, date, tz)]
    /\ UNCHANGED <<tz, vault, timewalkRoot, waypointMap, graphVars, heapVars, pluginVars>>

CallGetNextDailyNote(date) ==
    /\ res.op = "idle"
    /\ res' = [op |-> "next", date |-> date,
               file |-> GetNextDailyNote(timewalkRoot, date, tz)]
    /\ UNCHANGED <<tz, vault, timewalkRoot, waypointMap, graphVars, heapVars, pluginVars>>

\* The call returns to its caller: the program is single-threaded and every
\* call runs to completion before the next one starts.
Return ==
    /\ res.op # "idle"
    /\ res' = [op |-> "idle"]
    /\ UNCHANGED <<tz, vault, timewalkRoot, waypointMap, graphVars, heapVars, pluginVars>>

Next ==
    \/ \E path \in PathPool \ RangeOf(vault) : OnVaultCreate(path)
    \/ \E i \in DOMAIN vault : OnVaultDelete(i)
    \/ \E path \in PathPool \ RangeOf(vault), i \in DOMAIN vault :
          OnVaultRename(i, path)
    \/ Rebuild
    \/ RebuildThrows
    \/ \E a \in QueryDates[tz], c \in TodayDates[tz] : CallBuildGlobalTimeline(a, c)
    \/ \E path \in FilePool : CallGetDailyNoteDate(path)
    \/ \E d \in QueryDates[tz] : CallFindDailyNote(d)
    \/ \E d \in QueryDates[tz] : CallHasDailyNote(d)
    \/ \E d \in QueryDates[tz] : CallGetPreviousDailyNote(d)
    \/ \E d \in QueryDates[tz] : CallGetNextDailyNote(d)
    \/ Return

Spec == Init /\ [][Next]_vars

(***************************************************************************)
(* A graph built through the library: the state machine SpecGraph.         *)
(***************************************************************************)
\* The dates of leaves: an Invalid Date, the epoch, and two calendar dates.
LeafTimes == {NaN, 0, 48, 96}

\* The groupTime of a group: none, or an explicit date.
GroupTimes == {Undefined, 72}

\* The target times of navigate and find.
TargetTimes == {NaN, 0, 48, 50, 72, 96}

NodesOf(root) == RangeOf(CollectAllChildren(root))

ContainerIds(root) == {n.id : n \in {m \in NodesOf(root) : m.isContainer}}

InitGraph ==
    /\ tz \in TZOffsets
    /\ vault = <<>>
    /\ timewalkRoot = EmptyRoot
    /\ waypointMap = EmptyMap
    /\ res = [op |-> "idle"]
    /\ \E groupTime \in GroupTimes : graph = GroupWaypoint(0, <<>>, groupTime)
    /\ nextId = 1
    /\ out = [op |-> "idle"]
    /\ timewalkId = 1
    /\ held = NoTimewalk
    /\ deletedLeaves = {}
    /\ PluginLoaded

\* parent.addChild(new StringWaypoint(id, date))
AddLeaf(parentId, date) ==
    /\ out.op = "idle"
    /\ nextId < MaxNodes
    /\ graph' = AddChild(graph, parentId, LeafWaypoint(nextId, date))
    /\ nextId' = nextId + 1
    /\ UNCHANGED out
    /\ UNCHANGED <<tz, serviceVars, pluginVars>>

\* parent.addChild(new GroupWaypoint(id, [], groupTime))
AddGroup(parentId, groupTime) ==
    /\ out.op = "idle"
    /\ nextId < MaxNodes
    /\ graph' = AddChild(graph, parentId, GroupWaypoint(nextId, <<>>, groupTime))
    /\ nextId' = nextId + 1
    /\ UNCHANGED out
    /\ UNCHANGED <<tz, serviceVars, pluginVars>>

\* traverse(callback, { direction, filter, includeNonCalendar }): visited is
\* the sequence of waypoints the callback received.
Traverse(direction, filter, includeNonCalendar) ==
    /\ out.op = "idle"
    /\ \E visited \in TraverseOutcomes(graph, direction, filter, includeNonCalendar) :
          out' = [op |-> "traverse", direction |-> direction, filter |-> filter,
                  includeNonCalendar |-> includeNonCalendar, visited |-> visited]
    /\ UNCHANGED <<tz, serviceVars, graph, nextId, pluginVars>>

Navigate(targetTime) ==
    /\ out.op = "idle"
    /\ out' = [op |-> "navigate", targetTime |-> targetTime,
               found |-> TimewalkNavigate(graph, targetTime)]
    /\ UNCHANGED <<tz, serviceVars, graph, nextId, pluginVars>>

Find(targetTime) ==
    /\ out.op = "idle"
    /\ out' = [op |-> "find", targetTime |-> targetTime,
               found |-> TimewalkFind(graph, targetTime, tz)]
    /\ UNCHANGED <<tz, serviceVars, graph, nextId, pluginVars>>

\* group.time() of a group of the graph
GroupTime(node) ==
    /\ out.op = "idle"
    /\ node.isContainer
    /\ out' = [op |-> "time", node |-> node, time |-> TimeOf(node)]
    /\ UNCHANGED <<tz, serviceVars, graph, nextId, pluginVars>>

ReturnGraph ==
    /\ out.op # "idle"
    /\ out' = [op |-> "idle"]
    /\ UNCHANGED <<tz, serviceVars, graph, nextId, pluginVars>>

NextGraph ==
    \/ \E parentId \in ContainerIds(graph), date \in LeafTimes :
          AddLeaf(parentId, date)
    \/ \E parentId \in ContainerIds(graph), groupTime \in GroupTimes :
          AddGroup(parentId, groupTime)
    \/ \E direction \in Directions, filter \in Filters,
          includeNonCalendar \in BOOLEAN :
          Traverse(direction, filter, includeNonCalendar)
    \/ \E targetTime \in TargetTimes : Navigate(targetTime)
    \/ \E targetTime \in TargetTimes : Find(targetTime)
    \/ \E node \in NodesOf(graph) : GroupTime(node)
    \/ ReturnGraph

SpecGraph == InitGraph /\ [][NextGraph]_vars

(***************************************************************************)
(* A traversal in progress, and references kept across rebuilds.           *)
(* traverse() collects, filters and sorts into a local array and then      *)
(* hands the elements of that array to the callback one by one; the        *)
(* callback is the caller's code and may call rebuild().                   *)
(***************************************************************************)
MaxWalkFiles == 2

WalkPool == {PathJan02, PathJan05, PathJan05b}

\* new TimewalkService(vault) on an empty vault
InitWalk ==
    /\ tz \in TZOffsets
    /\ vault = <<>>
    /\ \E index \in {RebuildIndex(vault, EmptyRoot, EmptyMap)} :
          /\ timewalkRoot = index.root
          /\ waypointMap = index.map
    /\ res = [op |-> "idle"]
    /\ graph = EmptyGraph
    /\ nextId = 1
    /\ out = [op |-> "idle"]
    /\ timewalkId = 1
    /\ held = NoTimewalk
    /\ deletedLeaves = {}
    /\ PluginLoaded

\* getTimewalk(): the caller keeps the reference.
GetTimewalk ==
    /\ res.op = "idle"
    /\ held' = [id |-> timewalkId, root |-> timewalkRoot, gone |-> deletedLeaves]
    /\ res' = [op |-> "getTimewalk"]
    /\ UNCHANGED <<tz, vault, timewalkRoot, waypointMap, timewalkId, deletedLeaves,
                   graphVars, pluginVars>>

\* getTimewalk().traverse(callback, {direction, filter}) up to the forEach:
\* root is this.root of the Timewalk traversed, filtered the sorted array.
TraverseStart(direction, filter) ==
    /\ res.op = "idle"
    /\ \E filtered \in TraverseOutcomes(timewalkRoot, direction, filter, FALSE) :
          res' = [op |-> "traverse", direction |-> direction, filter |-> filter,
                  root |-> timewalkRoot, filtered |-> filtered,
                  visited |-> <<>>, done |-> FALSE]
    /\ UNCHANGED <<tz, vault, timewalkRoot, waypointMap, graphVars, heapVars, pluginVars>>

\* What collecting, filtering and sorting would give on the graph the
\* service holds now.
LiveNodes ==
    CHOOSE nodes \in TraverseOutcomes(timewalkRoot, res.direction, res.filter,
                                      FALSE) : TRUE

\* Mutant of NodesToVisit: each step looks at the service's graph again.
LiveNodesToVisit(filtered, live) == live

\* filtered.forEach(callback): the array whose elements are visited, given
\* the local array and what the service's graph would give now.
NodesToVisit(filtered, live) == filtered

Visiting == res.op = "traverse" /\ ~res.done

\* The listings rebuild() may read inside a callback: the one the graph was
\* built from, or one that has gained or lost a file since.
CallbackListings ==
    {vault}
    \cup {Append(vault, path) : path \in
             {q \in WalkPool \ RangeOf(vault) : Len(vault) < MaxWalkFiles}}
    \cup {SubSeq(vault, 1, i - 1) \o SubSeq(vault, i + 1, Len(vault)) :
             i \in DOMAIN vault}

\* forEach hands the next element to a callback that returns.
Visit ==
    /\ Visiting
    /\ \E nodes \in {NodesToVisit(res.filtered, LiveNodes)} :
          /\ Len(res.visited) < Len(nodes)
          /\ res' = [res EXCEPT !.visited = Append(@, nodes[Len(res.visited) + 1])]
    /\ UNCHANGED <<tz, vault, timewalkRoot, waypointMap, graphVars, heapVars, pluginVars>>

\* forEach hands the next element to a callback that calls rebuild().
VisitRebuild(allFiles) ==
    /\ Visiting
    /\ \E nodes \in {NodesToVisit(res.filtered, LiveNodes)} :
          /\ Len(res.visited) < Len(nodes)
          /\ res' = [res EXCEPT !.visited = Append(@, nodes[Len(res.visited) + 1])]
    /\ vault' = allFiles
    /\ RebuildState(allFiles)
    /\ UNCHANGED <<tz, graphVars, pluginVars>>

\* forEach has gone through the array: traverse() is over.
TraverseDone ==
    /\ Visiting
    /\ Len(res.visited) >= Len(NodesToVisit(res.filtered, LiveNodes))
    /\ res' = [res EXCEPT !.done = TRUE]
    /\ UNCHANGED <<tz, vault, timewalkRoot, waypointMap, graphVars, heapVars, pluginVars>>

WalkCreate(path) ==
    /\ Len(vault) < MaxWalkFiles
    /\ OnVaultCreate(path)

ReturnWalk ==
    /\ res.op = "traverse" => res.done
    /\ Return

NextWalk ==
    \/ \E path \in WalkPool : WalkCreate(path)
    \/ \E i \in DOMAIN vault : OnVaultDelete(i)
    \/ \E i \in DOMAIN vault : \E path \in WalkPool : OnVaultRename(i, path)
    \/ GetTimewalk
    \/ \E direction \in Directions : \E filter \in Filters :
          TraverseStart(direction, filter)
    \/ Visit
    \/ \E allFiles \in CallbackListings : VisitRebuild(allFiles)
    \/ TraverseDone
    \/ ReturnWalk

SpecWalk == InitWalk /\ [][NextWalk]_vars

(***************************************************************************)
(* DailyOrbitPlugin: navbars, document navigations and the handlers of     *)
(* workspace and vault events.  A handler runs to its end in one step,     *)
(* except those with an await (addDailyOrbit, the mode toggle of a navbar, *)
(* the handlers of the settings tab), which give up control there and go   *)
(* on in a later step: tasks holds the addDailyOrbit calls that have not   *)
(* gone on yet, saving the handlers waiting for saveSettings().            *)
(***************************************************************************)
MaxPluginFiles == 2
MaxNavbarIds == 2

PluginPool == {PathJan02, PathJan05, PathRandom}

\* The paths the files of this run get
RunPool == IF scope.others THEN PluginPool ELSE PluginPool \ {PathRandom}

\* The zone the application runs in: five hours west of Greenwich.
PluginZones == {0 - 5}

\* moment() at the time a navbar is drawn: noon of 2025-01-02, local time.
PluginNow(zone) == Jan2025(2) - zone + 12

\* selectNavbarFromView(view): the id attribute of the navbar element of the
\* view, the first one in document order, or null.
SelectNavbarFromView(view) ==
    IF Len(view.dom) = 0 THEN NoId ELSE view.dom[1]

\* getNavbar(id), for the id read from the view or null
GetNavbar(registry, id) ==
    IF id # NoId /\ id \in DOMAIN registry THEN id ELSE NoId

Without(registry, ids) ==
    [id \in DOMAIN registry \ ids |-> registry[id]]

\* The date of a file as a view hands it to the service, null for no file.
FileDate(map, file, zone) ==
    IF file = Null THEN NullMoment ELSE GetDailyNoteDate(map, file, zone)

\* rerender(), lines 68-75: the date follows the file of the view when that
\* file is a daily note of another day.
NavbarDate(date, fileDate, zone) ==
    IF fileDate # NullMoment /\ FormatLocal(fileDate, zone) # FormatLocal(date, zone)
    THEN fileDate
    ELSE date

\* What stands for the deleted TFile of a leaf while a timeline is built
DeletedMark == "deleted"

\* The graph root with the leaves at the positions dead told apart from the
\* leaves that have the same path: a deleted TFile keeps its path, and a file
\* created or renamed to that path afterwards is another TFile.
MarkDeleted(root, dead) ==
    [root EXCEPT
        !.kids = [k \in DOMAIN root.kids |->
                     IF k \in dead
                     THEN [root.kids[k] EXCEPT !.id = Append(@, DeletedMark)]
                     ELSE root.kids[k]]]

\* The positions of the items of a timeline that hold a deleted TFile
GoneItems(items) ==
    {k \in DOMAIN items :
        /\ items[k].type = "note"
        /\ items[k].file[Len(items[k].file)] = DeletedMark}

\* The items of a timeline, each TFile under the path it has
ItemPaths(items) ==
    [k \in DOMAIN items |->
        IF k \in GoneItems(items)
        THEN [items[k] EXCEPT !.file = SubSeq(@, 1, Len(@) - 1)]
        ELSE items[k]]

\* rerender(), from line 76: the content is drawn again for the date.  Only
\* a navbar in mode 'global' builds the timeline; globalItems of a navbar
\* in mode 'weekly' stay as they are.  An item holds the TFile of its leaf;
\* gone holds the positions of the items whose TFile has been deleted.
Drawn(navbar, date, index, zone) ==
    IF navbar.mode = "global"
    THEN \* renderGlobalContent
         IF index.dead = {}
         THEN [navbar EXCEPT
                  !.date = date,
                  !.items = BuildGlobalTimeline(index.root, date,
                                                PluginNow(zone), zone),
                  !.gone = {}]
         ELSE [navbar EXCEPT
                  !.date = date,
                  !.items = ItemPaths(BuildGlobalTimeline(
                                MarkDeleted(index.root, index.dead), date,
                                PluginNow(zone), zone)),
                  !.gone = GoneItems(BuildGlobalTimeline(
                               MarkDeleted(index.root, index.dead), date,
                               PluginNow(zone), zone))]
    ELSE [navbar EXCEPT !.date = date]

\* DailyOrbit.rerender() of a navbar whose view shows file
Rerender(navbar, file, index, zone) ==
    Drawn(navbar, NavbarDate(navbar.date, FileDate(index.map, file, zone), zone),
          index, zone)

\* rerenderNavbars()
RerenderNavbars(registry, vs, index, zone) ==
    [id \in DOMAIN registry |->
        Rerender(registry[id], vs[registry[id].view].file, index, zone)]

\* What the service holds: the graph, the cache, and the positions of the
\* leaves of the graph whose TFile has been deleted since the graph was built.
CurrentIndex ==
    [root |-> timewalkRoot, map |-> waypointMap, dead |-> deletedLeaves]

\* removeNavbar(id) for an id of the registry: the element leaves its
\* parent and the entry is deleted.
RemoveNavbar(state, id) ==
    [state EXCEPT
        !.views = [@ EXCEPT ![state.navbars[id].view].dom =
                                SelectSeq(@, LAMBDA n : n # id)],
        !.navbars = Without(@, {id})]

PluginSame ==
    [views |-> views, navbars |-> navbars, tasks |-> tasks, removed |-> NoId]

\* addDailyOrbit(leaf) from line 82 to its await, for the view v of the leaf,
\* the navbar read from it and the date of its file.
AddDailyOrbitFrom(v, navbar, fileDate) ==
    IF fileDate = NullMoment
    THEN IF navbar # NoId
         THEN [RemoveNavbar(PluginSame, navbar) EXCEPT !.removed = navbar]
         ELSE PluginSame
    ELSE [PluginSame EXCEPT !.tasks = Append(@, [view |-> v, navbar |-> navbar,
                                                 fileDate |-> fileDate])]

\* addDailyOrbit(leaf) up to its await: what it leaves of views, navbars and
\* tasks, and the id it called removeNavbar with, if it did.
AddDailyOrbit(v) ==
    IF ~hasDependencies \/ views[v].file = Null \/ views[v].titleContainers # 1
    THEN PluginSame
    ELSE AddDailyOrbitFrom(v,
                           GetNavbar(navbars, SelectNavbarFromView(views[v])),
                           GetDailyNoteDate(waypointMap, views[v].file, tz))

LeastFree(used) ==
    CHOOSE h \in 1..(Cardinality(used) + 1) :
        h \notin used /\ \A k \in 1..(h - 1) : k \in used

\* addDocumentNavigation(leaf) for a view showing file: what it leaves of
\* documentNavigations, pendingDocNavTimeout and the timeouts set.
AddDocumentNavigation(v, file) ==
    LET fileDate == GetDailyNoteDate(waypointMap, file, tz)
        kept     == IF pendingDocNavTimeout # NoTimeout
                    THEN {t \in timers : t.handle # pendingDocNavTimeout}
                    ELSE timers
        handle   == LeastFree({t.handle : t \in kept})
    IN  IF file = Null
        THEN [documentNavigations |-> documentNavigations,
              pending |-> pendingDocNavTimeout, timers |-> timers,
              run |-> pres.docNavRun]
        ELSE IF fileDate = NullMoment
        THEN [documentNavigations |-> EmptyRegistry,
              pending |-> pendingDocNavTimeout, timers |-> timers,
              run |-> "nonDaily"]
        ELSE [documentNavigations |-> EmptyRegistry,
              pending |-> handle,
              timers |-> kept \cup {[handle |-> handle, view |-> v]},
              run |-> "daily"]

InitPlugin ==
    /\ tz \in PluginZones
    /\ vault = <<>>
    /\ \E index \in {RebuildIndex(vault, EmptyRoot, EmptyMap)} :
          /\ timewalkRoot = index.root
          /\ waypointMap = index.map
    /\ res = [op |-> "idle"]
    /\ graph = EmptyGraph
    /\ nextId = 1
    /\ out = [op |-> "idle"]
    /\ timewalkId = 1
    /\ held = NoTimewalk
    /\ deletedLeaves = {}
    /\ \E limits \in Scopes : \E mode \in limits.modes :
       \E dependencies \in limits.plugins :
       \E containers \in limits.containers :
          PluginStarted([DefaultSettings EXCEPT !.navbarMode = mode],
                        dependencies, containers, limits)

\* "active-leaf-change" for the leaf of view v: addDailyOrbit(leaf) runs up
\* to its await, then addDocumentNavigation(leaf) runs.
ActiveLeafChange(v) ==
    /\ views[v].loaded
    /\ Len(tasks) < scope.tasks
    /\ activeLeaf' = v
    /\ \E orbit \in {AddDailyOrbit(v)} :
       \E docNav \in {AddDocumentNavigation(v, views[v].file)} :
          /\ views' = orbit.views
          /\ navbars' = orbit.navbars
          /\ tasks' = orbit.tasks
          /\ documentNavigations' = docNav.documentNavigations
          /\ pendingDocNavTimeout' = docNav.pending
          /\ timers' = docNav.timers
          /\ pres' = [op |-> "workspace", threw |-> FALSE, removed |-> orbit.removed,
                      registered |-> TRUE, docNavRun |-> docNav.run]
    /\ UNCHANGED <<tz, serviceVars, graphVars, saving, saves, nextNavbarId, nextDocNavId,
                   configVars>>

\* A file of the vault opens in the active leaf, and the handler of
\* "file-open" runs: addDocumentNavigation(activeLeaf).
FileOpen(path) ==
    /\ activeLeaf # NoLeaf
    /\ views[activeLeaf].loaded
    /\ path \in RangeOf(vault)
    /\ path # views[activeLeaf].file \/ views[activeLeaf].fileGone
    /\ views' = [views EXCEPT ![activeLeaf].file = path,
                              ![activeLeaf].fileGone = FALSE]
    /\ \E docNav \in {AddDocumentNavigation(activeLeaf, path)} :
          /\ documentNavigations' = docNav.documentNavigations
          /\ pendingDocNavTimeout' = docNav.pending
          /\ timers' = docNav.timers
          /\ pres' = [op |-> "workspace", threw |-> FALSE, removed |-> NoId, registered |-> TRUE,
                      docNavRun |-> docNav.run]
    /\ UNCHANGED <<tz, serviceVars, graphVars, saving, saves, activeLeaf, navbars,
                   nextNavbarId, tasks, nextDocNavId,
                   configVars>>

\* new DailyOrbit(plugin, id, view, parentEl, date) before it draws
NewNavbar(v, date) ==
    [view |-> v, date |-> date, mode |-> settings.navbarMode, items |-> <<>>,
     gone |-> {}]

\* addDailyOrbit goes on after its await: the navbar it read before is
\* redrawn, or, if it read none, createNavbar makes one.  The constructor
\* of DailyOrbit appends the element, assigns view.onunload and draws.
ResumeAddDailyOrbit(i) ==
    /\ i \in DOMAIN tasks
    /\ tasks' = SubSeq(tasks, 1, i - 1) \o SubSeq(tasks, i + 1, Len(tasks))
    /\ \E task \in {tasks[i]} :
       \E navbar \in {IF task.navbar \in DOMAIN navbars
                       THEN navbars[task.navbar]
                       ELSE NewNavbar(task.view, task.fileDate)} :
       \E drawn \in {Rerender(navbar, views[task.view].file, CurrentIndex, tz)} :
          IF task.navbar # NoId
          THEN /\ navbars' = IF task.navbar \in DOMAIN navbars
                             THEN [navbars EXCEPT ![task.navbar] = drawn]
                             ELSE navbars
               /\ UNCHANGED <<views, nextNavbarId>>
          ELSE /\ nextNavbarId < MaxNavbarIds
               /\ nextNavbarId' = nextNavbarId + 1
               /\ views' = [views EXCEPT
                               ![task.view].dom = Append(@, nextNavbarId),
                               ![task.view].onunload = nextNavbarId]
               /\ navbars' = (nextNavbarId :> drawn) @@ navbars
    /\ pres' = [pres EXCEPT !.op = "workspace", !.threw = FALSE, !.removed = NoId,
                            !.registered = TRUE]
    /\ UNCHANGED <<tz, serviceVars, graphVars, saving, saves, activeLeaf, documentNavigations,
                   nextDocNavId, pendingDocNavTimeout, timers,
                   configVars>>

\* The timeout set by addDocumentNavigation fires.
TimerFires(timer) ==
    /\ timer \in timers
    /\ nextDocNavId < scope.docNavs
    /\ timers' = timers \ {timer}
    /\ pendingDocNavTimeout' = NoTimeout
    /\ nextDocNavId' = nextDocNavId + 1
    /\ documentNavigations' =
          (nextDocNavId :> [view |-> timer.view])
          @@ documentNavigations
    /\ views' = [views EXCEPT ![timer.view].cleanups = @ \cup {nextDocNavId}]
    /\ pres' = [pres EXCEPT !.op = "workspace", !.threw = FALSE, !.removed = NoId,
                            !.registered = TRUE]
    /\ UNCHANGED <<tz, serviceVars, graphVars, saving, saves, activeLeaf, navbars,
                   nextNavbarId, tasks,
                   configVars>>

\* The view v unloads: the callbacks registered on it run, and
\* view.onunload, which calls removeNavbar with the id of the navbar whose
\* constructor assigned it.  removeNavbar reads navbar.parentEl of the
\* registry's entry and throws when there is none; the exception ends the
\* unload, after the registered callbacks or before them (callbacksRan):
\* the order of the two inside Component.unload is Obsidian's.
UnloadView(v) ==
    /\ views[v].loaded
    /\ activeLeaf' = IF activeLeaf = v THEN NoLeaf ELSE activeLeaf
    /\ \E id \in {views[v].onunload} :
          /\ IF id = NoId \/ id \in DOMAIN navbars
             THEN \E state \in {IF id = NoId
                                THEN [views |-> views, navbars |-> navbars]
                                ELSE RemoveNavbar([views |-> views,
                                                   navbars |-> navbars], id)} :
                     /\ documentNavigations' =
                            Without(documentNavigations, views[v].cleanups)
                     /\ views' = [state.views EXCEPT ![v].loaded = FALSE,
                                                     ![v].file = Null,
                                                     ![v].fileGone = FALSE,
                                                     ![v].cleanups = {}]
                     /\ navbars' = state.navbars
             ELSE \* removeNavbar(id) throws and ends the unload
                  \E callbacksRan \in BOOLEAN :
                     /\ documentNavigations' =
                            IF callbacksRan
                            THEN Without(documentNavigations, views[v].cleanups)
                            ELSE documentNavigations
                     /\ views' = [views EXCEPT
                                     ![v].loaded = FALSE,
                                     ![v].file = Null,
                                     ![v].fileGone = FALSE,
                                     ![v].cleanups = IF callbacksRan THEN {} ELSE @]
                     /\ navbars' = navbars
          /\ pres' = [pres EXCEPT !.op = "workspace", !.threw = FALSE, !.removed = id,
                                  !.registered = (id = NoId \/ id \in DOMAIN navbars)]
    /\ UNCHANGED <<tz, serviceVars, graphVars, saving, saves, nextNavbarId, tasks,
                   nextDocNavId, pendingDocNavTimeout, timers,
                   configVars>>

\* "css-change": rerenderNavbars().
CssChange ==
    /\ navbars' = RerenderNavbars(navbars, views, CurrentIndex, tz)
    /\ pres' = [pres EXCEPT !.op = "workspace", !.threw = FALSE, !.removed = NoId,
                            !.registered = TRUE]
    /\ UNCHANGED <<tz, serviceVars, graphVars, saving, saves, views, activeLeaf, nextNavbarId,
                   tasks, documentNavigations, nextDocNavId,
                   pendingDocNavTimeout, timers, configVars>>

\* A click on a control of navbar id that moves what it shows and draws it
\* again: previous or next week and the wheel in mode 'weekly', 'go to
\* today' in either mode.  rerender() takes the date of the view's file.
NavbarMoved(id) ==
    /\ id \in DOMAIN navbars
    /\ views[navbars[id].view].loaded
    /\ navbars' = [navbars EXCEPT
                      ![id] = Rerender(@, views[@.view].file, CurrentIndex, tz)]
    /\ pres' = [pres EXCEPT !.op = "workspace", !.threw = FALSE, !.removed = NoId,
                            !.registered = TRUE]
    /\ UNCHANGED <<tz, serviceVars, graphVars, saving, saves, views, activeLeaf, nextNavbarId,
                   tasks, documentNavigations, nextDocNavId,
                   pendingDocNavTimeout, timers, configVars>>

OtherMode(mode) == IF mode = "weekly" THEN "global" ELSE "weekly"

\* A click on the mode toggle of navbar id, up to its await: the mode of the
\* navbar flips and goes into the settings.
ToggleMode(id) ==
    /\ id \in DOMAIN navbars
    /\ views[navbars[id].view].loaded
    /\ Len(saving) < MaxSaving
    /\ saves < scope.saves
    /\ saves' = saves + 1
    /\ navbars' = [navbars EXCEPT ![id].mode = OtherMode(@)]
    /\ settings' = [settings EXCEPT !.navbarMode = OtherMode(navbars[id].mode)]
    /\ saving' = Append(saving, [call |-> "toggle", navbar |-> id,
                                 redraws |-> TRUE])
    /\ pres' = [pres EXCEPT !.op = "workspace", !.threw = FALSE, !.removed = NoId,
                            !.registered = TRUE]
    /\ UNCHANGED <<tz, serviceVars, graphVars, tasks, views, activeLeaf, nextNavbarId,
                   documentNavigations, nextDocNavId, pendingDocNavTimeout,
                   timers, hasDependencies, scope>>

\* The toggle's handler goes on after saveSettings(): the navbar draws.
ResumeToggleMode(i) ==
    /\ i \in DOMAIN saving
    /\ saving[i].call = "toggle"
    /\ saving' = SubSeq(saving, 1, i - 1) \o SubSeq(saving, i + 1, Len(saving))
    /\ \E id \in {saving[i].navbar} :
          navbars' = IF id \in DOMAIN navbars
                     THEN [navbars EXCEPT
                              ![id] = Rerender(@, views[@.view].file,
                                               CurrentIndex, tz)]
                     ELSE navbars
    /\ pres' = [pres EXCEPT !.op = "workspace", !.threw = FALSE, !.removed = NoId,
                            !.registered = TRUE]
    /\ UNCHANGED <<tz, serviceVars, graphVars, tasks, saves, views, activeLeaf, nextNavbarId,
                   documentNavigations, nextDocNavId, pendingDocNavTimeout,
                   timers, configVars>>

\* The handlers of the settings tab.  mode is what the handler leaves in
\* settings.navbarMode; awaits says that it awaits saveSettings(), redraws
\* that it calls rerenderNavbars() after that.  "dateFormat" stands for the
\* handlers of the two date formats, the first day of the week and the open
\* type, "enableAutoMetadata" for the three handlers of the metadata.
SettingChanges ==
    {[setting |-> "navbarMode", mode |-> mode, awaits |-> TRUE, redraws |-> TRUE] :
        mode \in NavbarModes \ {settings.navbarMode}}
    \cup
    {[setting |-> "dateFormat", mode |-> settings.navbarMode, awaits |-> TRUE,
      redraws |-> TRUE],
     [setting |-> "enableAutoMetadata", mode |-> settings.navbarMode,
      awaits |-> TRUE, redraws |-> FALSE],
     [setting |-> "setActive", mode |-> settings.navbarMode, awaits |-> FALSE,
      redraws |-> FALSE]}

\* A setting is changed in the settings tab: its handler runs up to its
\* await, or to its end when it does not await.
SettingChanged(change) ==
    /\ change.awaits => Len(saving) < MaxSaving
    /\ saves < scope.saves
    /\ saves' = saves + 1
    /\ settings' = [settings EXCEPT !.navbarMode = change.mode]
    /\ saving' = IF change.awaits
                 THEN Append(saving, [call |-> "settings", navbar |-> NoId,
                                      redraws |-> change.redraws])
                 ELSE saving
    /\ pres' = [pres EXCEPT !.op = "workspace", !.threw = FALSE,
                            !.removed = NoId, !.registered = TRUE]
    /\ UNCHANGED <<tz, serviceVars, graphVars, tasks, views, activeLeaf, navbars,
                   nextNavbarId, documentNavigations, nextDocNavId,
                   pendingDocNavTimeout, timers, hasDependencies, scope>>

\* A handler of the settings tab goes on after saveSettings():
\* rerenderNavbars(), in the handlers that call it.
ResumeSettingChanged(i) ==
    /\ i \in DOMAIN saving
    /\ saving[i].call = "settings"
    /\ saving' = SubSeq(saving, 1, i - 1) \o SubSeq(saving, i + 1, Len(saving))
    /\ navbars' = IF saving[i].redraws
                  THEN RerenderNavbars(navbars, views, CurrentIndex, tz)
                  ELSE navbars
    /\ pres' = [pres EXCEPT !.op = "workspace", !.threw = FALSE,
                            !.removed = NoId, !.registered = TRUE]
    /\ UNCHANGED <<tz, serviceVars, graphVars, tasks, saves, views, activeLeaf,
                   nextNavbarId, documentNavigations, nextDocNavId,
                   pendingDocNavTimeout, timers, configVars>>

\* The items of a navbar once the file at from has got the path to: an item
\* holds its TFile (globalModeBuilder.ts, line 59).
ItemsRenamed(navbar, from, to) ==
    [navbar EXCEPT
        !.items = [k \in DOMAIN navbar.items |->
                      IF /\ navbar.items[k].type = "note"
                         /\ k \notin navbar.gone
                         /\ navbar.items[k].file = from
                      THEN [navbar.items[k] EXCEPT !.file = to]
                      ELSE navbar.items[k]]]

\* The items of a navbar once the file at path has been deleted.
ItemsDeleted(navbar, path) ==
    [navbar EXCEPT
        !.gone = @ \cup {k \in DOMAIN navbar.items :
                            /\ navbar.items[k].type = "note"
                            /\ navbar.items[k].file = path}]

\* The changes of the vault that can happen: a file is created, deleted or
\* renamed.  allFiles is the listing after the change; views, held, navbars,
\* root and dead are what the views, the caller's reference, the navbars and
\* the service's graph hold once the TFile has changed and before any handler
\* runs: what holds a renamed TFile has it under its new path, and what holds
\* a deleted one keeps it under the path it had.
FileChanges ==
    {[event |-> "create", allFiles |-> Append(vault, path), views |-> views,
      held |-> held, navbars |-> navbars, root |-> timewalkRoot,
      dead |-> deletedLeaves] :
        path \in {q \in RunPool \ RangeOf(vault) : Len(vault) < MaxPluginFiles}}
    \cup
    {[event |-> "delete",
      allFiles |-> SubSeq(vault, 1, i - 1) \o SubSeq(vault, i + 1, Len(vault)),
      views |-> [v \in Views |->
                    IF views[v].file = vault[i]
                    THEN [views[v] EXCEPT !.fileGone = TRUE]
                    ELSE views[v]],
      held |-> HeldDeleted({vault[i]}),
      navbars |-> [id \in DOMAIN navbars |-> ItemsDeleted(navbars[id], vault[i])],
      root |-> timewalkRoot,
      dead |-> deletedLeaves \cup {k \in DOMAIN timewalkRoot.kids :
                                      timewalkRoot.kids[k].id = vault[i]}] :
        i \in {k \in DOMAIN vault :
                 scope.open \/ \A v \in Views : views[v].file # vault[k]}}
    \cup
    {[event |-> "rename", allFiles |-> [vault EXCEPT ![c[1]] = c[2]],
      views |-> [v \in Views |->
                    IF views[v].file = vault[c[1]] /\ ~views[v].fileGone
                    THEN [views[v] EXCEPT !.file = c[2]]
                    ELSE views[v]],
      held |-> HeldRenamed(vault[c[1]], c[2]),
      navbars |-> [id \in DOMAIN navbars |->
                      ItemsRenamed(navbars[id], vault[c[1]], c[2])],
      root |-> RenameFile(timewalkRoot, deletedLeaves, vault[c[1]], c[2]),
      dead |-> deletedLeaves] :
        c \in (DOMAIN vault) \X (RunPool \ RangeOf(vault))}

\* Whether vault.getMarkdownFiles() throws in rebuild(): it may at every
\* call, in a run whose scope has it.
ListingThrows == IF scope.throws THEN BOOLEAN ELSE {FALSE}

\* The vault events that can happen, each with the outcome of the listing
\* call of its handler.
VaultEvents ==
    {[event |-> c.event, allFiles |-> c.allFiles, views |-> c.views,
      held |-> c.held, navbars |-> c.navbars, root |-> c.root, dead |-> c.dead,
      threw |-> t] :
        c \in FileChanges, t \in ListingThrows}

\* The handler of "create", "rename" or "delete" runs after the event:
\* rebuild(), then rerenderNavbars().  When the listing call throws,
\* rebuild() has cleared the cache and leaves the handler before the graph
\* is replaced and before the navbars are drawn.
OnVaultEvent(e) ==
    /\ vault' = e.allFiles
    /\ views' = e.views
    /\ IF e.threw
       THEN /\ waypointMap' = EmptyMap
            /\ timewalkRoot' = e.root
            /\ timewalkId' = timewalkId
            /\ held' = e.held
            /\ deletedLeaves' = e.dead
            /\ navbars' = e.navbars
       ELSE /\ RebuildHolding(e.allFiles, e.held)
            /\ navbars' = RerenderNavbars(e.navbars, e.views,
                                          [root |-> timewalkRoot',
                                           map |-> waypointMap', dead |-> {}],
                                          tz)
    /\ pres' = [pres EXCEPT !.op = "vault", !.threw = e.threw,
                            !.removed = NoId, !.registered = TRUE]
    /\ UNCHANGED <<tz, res, graphVars, saving, saves, activeLeaf, nextNavbarId,
                   tasks, documentNavigations, nextDocNavId,
                   pendingDocNavTimeout, timers, configVars>>

NextPlugin ==
    \/ \E v \in Views : ActiveLeafChange(v)
    \/ \E path \in PluginPool : FileOpen(path)
    \/ \E i \in DOMAIN tasks : ResumeAddDailyOrbit(i)
    \/ CssChange
    \/ \E id \in DOMAIN navbars : NavbarMoved(id)
    \/ \E id \in DOMAIN navbars : ToggleMode(id)
    \/ \E i \in DOMAIN saving : ResumeToggleMode(i)
    \/ \E change \in SettingChanges : SettingChanged(change)
    \/ \E i \in DOMAIN saving : ResumeSettingChanged(i)
    \/ \E timer \in timers : TimerFires(timer)
    \/ \E v \in Views : UnloadView(v)
    \/ \E e \in VaultEvents : OnVaultEvent(e)

SpecPlugin == InitPlugin /\ [][NextPlugin]_vars

(***************************************************************************)
(* Properties of the timeline.                                             *)
(***************************************************************************)
IsTimeline == res.op = "timeline"

\* The day number of a date at UTC midnight.
DayNumber(t) == t \div HoursPerDay

\* The calendar days an item stands for: 1 for a note, gapCount for a gap.
ItemDays(item) == IF item.type = "note" THEN 1 ELSE item.gapCount

RECURSIVE TotalDays(_)
TotalDays(items) ==
    IF Len(items) = 0 THEN 0 ELSE ItemDays(Head(items)) + TotalDays(Tail(items))

NotesOf(items) == SelectSeq(items, LAMBDA item : item.type = "note")

\* The positions of the note items in a timeline, in ascending order.
RECURSIVE NotePositions(_, _)
NotePositions(items, from) ==
    IF from > Len(items) THEN <<>>
    ELSE (IF items[from].type = "note" THEN <<from>> ELSE <<>>)
            \o NotePositions(items, from + 1)

\* C1: counting 1 day for each note and gapCount days for each gap, starting
\* at the first note's date, the timeline reproduces every calendar day from
\* the first note's date through the last note's date exactly once.
C1_TimelineCoversRangeOnce ==
    (IsTimeline /\ Len(res.items) > 0) =>
        LET notes == NotesOf(res.items)
            first == DayNumber(notes[1].date)
            last  == DayNumber(notes[Len(notes)].date)
        IN  /\ Len(notes) > 0
            /\ first + TotalDays(res.items) - 1 = last

\* C2: the timeline holds one note per leaf of the chronological leaf
\* sequence, in that order, and between the notes of consecutive leaves i and
\* i+1 exactly one gap with date = date[i] + 1 day and gapCount = (whole days
\* from date[i] to date[i+1]) - 1 when that count is positive, and nothing
\* when it is not; it holds no other item.
C2_TimelineMatchesLeaves ==
    IsTimeline =>
        LET leaves == ChronologicalLeaves(timewalkRoot)
            items  == res.items
            pos    == NotePositions(items, 1)
            missing(i) ==
                (leaves[i + 1].time - leaves[i].time) \div HoursPerDay - 1
        IN  /\ Len(pos) = Len(leaves)
            /\ \A i \in DOMAIN leaves :
                  /\ items[pos[i]].date = leaves[i].time
                  /\ items[pos[i]].file = leaves[i].id
            /\ \A i \in 1 .. (Len(leaves) - 1) :
                  /\ leaves[i].time <= leaves[i + 1].time
                  /\ IF missing(i) > 0
                     THEN /\ pos[i + 1] = pos[i] + 2
                          /\ items[pos[i] + 1] =
                                [type |-> "gap",
                                 date |-> leaves[i].time + HoursPerDay,
                                 gapCount |-> missing(i)]
                     ELSE pos[i + 1] = pos[i] + 1
            /\ Len(leaves) > 0 => (pos[1] = 1 /\ pos[Len(pos)] = Len(items))
            /\ Len(leaves) = 0 => Len(items) = 0

\* A timeline of at least three notes with a gap of two days among them, as
\* for notes on 01-01, 01-02 and 01-05.
C2_Witness ==
    /\ IsTimeline
    /\ Len(NotesOf(res.items)) >= 3
    /\ \E i \in DOMAIN res.items :
          /\ res.items[i].type = "gap"
          /\ res.items[i].gapCount = 2
          /\ res.items[i].date = Jan2025(3)

\* C3: a non-empty timeline starts and ends with a note, every gap lies
\* between two notes, and every gap has gapCount >= 1.
C3_GapsOnlyBetweenNotes ==
    (IsTimeline /\ Len(res.items) > 0) =>
        LET items == res.items
        IN  /\ items[1].type = "note"
            /\ items[Len(items)].type = "note"
            /\ \A i \in DOMAIN items :
                  items[i].type = "gap" =>
                      /\ i > 1
                      /\ i < Len(items)
                      /\ items[i - 1].type = "note"
                      /\ items[i + 1].type = "note"
                      /\ items[i].gapCount >= 1

\* A timeline of three notes that holds a gap of a single day, the least
\* gapCount, between two of them.
C3_Witness ==
    /\ IsTimeline
    /\ Len(res.items) > 3
    /\ \E i \in DOMAIN res.items :
          /\ res.items[i].type = "gap"
          /\ res.items[i].gapCount = 1

\* C4: when the index holds no dated item, buildGlobalTimeline returns the
\* empty sequence, findDailyNote and hasDailyNote find nothing, and
\* getPreviousDailyNote and getNextDailyNote return none, for every date.
IndexIsEmpty == Len(timewalkRoot.kids) = 0 /\ DOMAIN waypointMap = {}

C4_EmptyIndexAnswers ==
    IndexIsEmpty =>
        /\ res.op = "timeline" => res.items = <<>>
        /\ res.op = "find" => res.file = Null
        /\ res.op = "has" => res.value = FALSE
        /\ res.op = "previous" => res.file = Null
        /\ res.op = "next" => res.file = Null

\* hasDailyNote has answered for a valid date on a vault that holds files,
\* none of them dated.
C4_Witness ==
    /\ IndexIsEmpty
    /\ Len(vault) > 0
    /\ res.op = "has"
    /\ ~IsNaN(res.date)

(***************************************************************************)
(* Properties of traverse and find.                                        *)
(***************************************************************************)
IsTraverse == out.op = "traverse"

Reverse(s) == [i \in DOMAIN s |-> s[Len(s) + 1 - i]]

\* a is not later than b; an Invalid Date is neither earlier nor later.
NotLater(a, b) == ~IsNaN(a) /\ ~IsNaN(b) /\ a <= b

NonCalendar(node) == TimeOf(node) = 0 \/ IsNaN(TimeOf(node))

\* C5: traverse visits in non-decreasing time order for 'future' and in
\* non-increasing time order for 'past'; when no two surviving nodes share a
\* time, the 'future' sequence reversed is the 'past' sequence.
C5_TraverseInTimeOrder ==
    IsTraverse =>
        LET visited == out.visited
        IN  /\ \A i \in 1 .. (Len(visited) - 1) :
                  IF out.direction = "future"
                  THEN NotLater(TimeOf(visited[i]), TimeOf(visited[i + 1]))
                  ELSE NotLater(TimeOf(visited[i + 1]), TimeOf(visited[i]))
            /\ (\A i, j \in DOMAIN visited :
                   i # j => TimeOf(visited[i]) # TimeOf(visited[j]))
               => \A other \in TraverseOutcomes(
                                   graph,
                                   IF out.direction = "future" THEN "past" ELSE "future",
                                   out.filter, out.includeNonCalendar) :
                     Reverse(visited) = other

\* C6: traverse with filter 'leaves' visits no container, and with filter
\* 'containers' visits no leaf.
C6_FilterByKind ==
    IsTraverse =>
        /\ out.filter = "leaves" =>
              \A i \in DOMAIN out.visited : ~out.visited[i].isContainer
        /\ out.filter = "containers" =>
              \A i \in DOMAIN out.visited : out.visited[i].isContainer

\* traverse with filter 'leaves' has visited a leaf that lies in a group
\* nested in the root, next to a leaf of the root itself.
C6_Witness ==
    /\ IsTraverse
    /\ out.filter = "leaves"
    /\ \E i, j \in DOMAIN graph.kids :
          /\ graph.kids[i].isContainer
          /\ Len(graph.kids[i].kids) > 0
          /\ ~graph.kids[i].kids[1].isContainer
          /\ graph.kids[i].kids[1] \in RangeOf(out.visited)
          /\ ~graph.kids[j].isContainer
          /\ graph.kids[j] \in RangeOf(out.visited)

\* C7: a leaf whose time is the epoch or an Invalid Date is not visited by
\* traverse unless includeNonCalendar is set, and is not returned by find for
\* any target time.
C7_NonCalendarLeavesExcluded ==
    /\ (IsTraverse /\ ~out.includeNonCalendar) =>
          \A i \in DOMAIN out.visited :
              out.visited[i].isContainer \/ ~NonCalendar(out.visited[i])
    /\ out.op = "find" =>
          \A i \in DOMAIN out.found : ~NonCalendar(out.found[i])

(***************************************************************************)
(* Properties of the service.                                              *)
(***************************************************************************)
\* The (identifier, date) pairs of the leaves of a graph and of the cache.
LeafPairs(root) ==
    {<<n.id, n.time>> : n \in {m \in NodesOf(root) : ~m.isContainer}}

MapPairs(map) == {<<k, map[k].time>> : k \in DOMAIN map}

\* The index is the one a rebuild() of the present listing has left.
IndexIsOfListing ==
    LET index == RebuildIndex(vault, EmptyRoot, EmptyMap)
    IN  timewalkRoot = index.root /\ waypointMap = index.map

\* C8: a rebuild() with the listing unchanged since the last rebuild() that
\* returned leaves the graph and the cache with the same (identifier, date)
\* pairs, and every query with the same answer.
C8_RebuildIsIdempotent ==
    [][(IndexIsOfListing /\ Rebuild) =>
          /\ LeafPairs(timewalkRoot') = LeafPairs(timewalkRoot)
          /\ MapPairs(waypointMap') = MapPairs(waypointMap)
          /\ \A d \in QueryDates[tz] :
                /\ FindDailyNote(timewalkRoot', d, tz)
                      = FindDailyNote(timewalkRoot, d, tz)
                /\ HasDailyNote(timewalkRoot', d, tz)
                      = HasDailyNote(timewalkRoot, d, tz)
                /\ GetPreviousDailyNote(timewalkRoot', d, tz)
                      = GetPreviousDailyNote(timewalkRoot, d, tz)
                /\ GetNextDailyNote(timewalkRoot', d, tz)
                      = GetNextDailyNote(timewalkRoot, d, tz)
                /\ \A c \in TodayDates[tz] :
                      BuildGlobalTimeline(timewalkRoot', d, c, tz)
                          = BuildGlobalTimeline(timewalkRoot, d, c, tz)
      ]_vars

\* rebuild() has run again, with no vault event, on an index of two dated
\* files and a listing that also holds a file that is not dated.
C8_Witness ==
    /\ res.op = "rebuild"
    /\ res.event = "none"
    /\ Len(timewalkRoot.kids) = 2
    /\ Len(vault) = 3

\* C9: getPreviousDailyNote on the date of the first leaf of the
\* chronological sequence returns none, and getNextDailyNote on the date of
\* the last leaf returns none.
C9_AdjacencyBoundary ==
    LET leaves == ChronologicalLeaves(timewalkRoot)
    IN  Len(leaves) >= 1 =>
           /\ (res.op = "previous" /\ res.date = leaves[1].time)
                 => res.file = Null
           /\ (res.op = "next" /\ res.date = leaves[Len(leaves)].time)
                 => res.file = Null

\* The local calendar day of a date, as a day number.
LocalDay(t, zone) == (t + zone) \div HoursPerDay

\* C10: getPreviousDailyNote / getNextDailyNote take the first leaf of the
\* oldest-first sequence that is on the calendar day of the date and return
\* the file of the leaf right before / after it; they return none when that
\* leaf is the first / last one and when no leaf is on that day.
C10_AdjacentOfFirstMatch ==
    res.op \in {"previous", "next"} =>
        LET leaves  == ChronologicalLeaves(timewalkRoot)
            matches == {i \in DOMAIN leaves :
                           /\ ~IsNaN(res.date)
                           /\ LocalDay(leaves[i].time, tz) = LocalDay(res.date, tz)}
            first   == MinOf(matches)
        IN  IF matches = {} THEN res.file = Null
            ELSE IF res.op = "previous"
                 THEN res.file = (IF first = 1 THEN Null ELSE leaves[first - 1].id)
                 ELSE res.file = (IF first = Len(leaves) THEN Null
                                  ELSE leaves[first + 1].id)

\* getPreviousDailyNote has returned the neighbour of a leaf that has leaves
\* on both sides.
C10_Witness ==
    /\ res.op = "previous"
    /\ res.file # Null
    /\ \E i \in DOMAIN timewalkRoot.kids :
          LocalDay(timewalkRoot.kids[i].time, tz) > LocalDay(res.date, tz)

(***************************************************************************)
(* Properties of the index.                                                *)
(***************************************************************************)
\* rebuild() has returned normally.
AfterRebuild == res.op = "rebuild" /\ ~res.threw

\* The captures of the daily-note pattern with the markdown extension, as
\* <<year, month, day>> numbers, or <<>> when the path does not match it.
DailyNoteCapture(path) ==
    LET starts == {i \in 1 .. Len(path) :
                      LET e == MatchAt(path, i)
                      IN  /\ e # 0
                          /\ SubSeq(path, e, Len(path)) = <<".", "m", "d">>}
    IN  IF starts = {} THEN <<>>
        ELSE LET i  == MinOf(starts)
                 w2 == SkipWord(path, SkipSpace(path, i + 8))
             IN  <<ParseInt(SubSeq(path, i, i + 3)),
                   ParseInt(SubSeq(path, i + 5, i + 6)),
                   ParseInt(SubSeq(path, w2 + 1, w2 + 2))>>

\* year-month-day is a date of the calendar.
IsCalendarDate(ymd) ==
    /\ ymd[2] \in 1 .. 12
    /\ ymd[3] >= 1
    /\ CivilFromDays(DaysFromCivil(ymd[1], ymd[2], ymd[3])) = ymd

\* UTC midnight of a date of the calendar
UtcMidnight(ymd) == DaysFromCivil(ymd[1], ymd[2], ymd[3]) * HoursPerDay

LeavesOf(root) == {n \in NodesOf(root) : ~n.isContainer}

\* C11: after rebuild the graph holds a leaf for a file exactly when the
\* file's path matches <year>/<month>. <word>/<day> <word>.md, and the time
\* of the leaf is UTC midnight of the captured year, month and day.  (Captures
\* that are no date of the calendar are the matter of C12.)
C11_LeafIffPathMatches ==
    AfterRebuild =>
        /\ \A n \in LeavesOf(timewalkRoot) : n.id \in RangeOf(vault)
        /\ \A path \in RangeOf(vault) :
              LET ymd    == DailyNoteCapture(path)
                  leaves == {n \in LeavesOf(timewalkRoot) : n.id = path}
              IN  IF ymd = <<>> THEN leaves = {}
                  ELSE IsCalendarDate(ymd) =>
                          /\ leaves # {}
                          /\ \A n \in leaves : n.time = UtcMidnight(ymd)

\* C12: a file whose path matches the pattern but whose captured year, month
\* and day are no date of the calendar is not indexed: after rebuild it has
\* no leaf in the graph and no entry in the cache.
C12_UnrealDateExcluded ==
    AfterRebuild =>
        \A path \in RangeOf(vault) :
            LET ymd == DailyNoteCapture(path)
            IN  (ymd # <<>> /\ ~IsCalendarDate(ymd)) =>
                    /\ \A n \in LeavesOf(timewalkRoot) : n.id # path
                    /\ path \notin DOMAIN waypointMap

\* C13: whenever a query can run, the cache and the graph describe the same
\* index: the same identifiers, each with the same date.
C13_CacheMatchesGraph ==
    res.op = "idle" => MapPairs(waypointMap) = LeafPairs(timewalkRoot)

\* C14: when the listing call fails during rebuild, the failure reaches the
\* caller and the index is the one from before the call.
C14_FailedRebuildKeepsIndex ==
    [][RebuildThrows =>
          /\ res'.threw
          /\ timewalkRoot' = timewalkRoot
          /\ waypointMap' = waypointMap
      ]_vars

\* What rebuild() would hold for a listing of this one file.
IndexOfFile(path) == RebuildIndex(<<path>>, EmptyRoot, EmptyMap).map

\* C15: getDailyNoteDate returns the date of the cached leaf when the file is
\* in the cache; for a file that is not, it returns a date exactly when
\* rebuild would index the path, on the calendar day rebuild would give it,
\* and none otherwise.
C15_DateOfFile ==
    res.op = "date" =>
        IF res.file \in DOMAIN waypointMap
        THEN res.date = waypointMap[res.file].time
        ELSE IF res.file \in DOMAIN IndexOfFile(res.file)
             THEN /\ res.date # NullMoment
                  /\ FormatLocal(res.date, tz)
                        = FormatUTC(IndexOfFile(res.file)[res.file].time)
             ELSE res.date = NullMoment

(***************************************************************************)
(* Properties of navigate, find and time().                                *)
(***************************************************************************)
\* The leaf at position i of the flattening is on the local day of t.
LeafOnDay(nodes, i, t, zone) ==
    /\ ~nodes[i].isContainer
    /\ ~IsNaN(nodes[i].time)
    /\ ~IsNaN(t)
    /\ LocalDay(nodes[i].time, zone) = LocalDay(t, zone)

\* C16: find(targetTime) returns the leaves on the calendar day of
\* targetTime, all of them, in flattening order, and nothing else.
C16_FindReturnsLeavesOfDay ==
    out.op = "find" =>
        LET nodes == CollectAllChildren(graph)
            onDay == {i \in DOMAIN nodes :
                         LeafOnDay(nodes, i, out.targetTime, tz)}
        IN  /\ Len(out.found) = Cardinality(onDay)
            /\ \E f \in [DOMAIN out.found -> onDay] :
                  /\ \A j, k \in DOMAIN f : j < k => f[j] < f[k]
                  /\ \A k \in DOMAIN f : out.found[k] = nodes[f[k]]

\* find has returned two leaves of one day for a target later that day, and
\* left out a leaf of another day.
C16_Witness ==
    /\ out.op = "find"
    /\ Len(out.found) = 2
    /\ out.found[1].time # out.targetTime
    /\ \E n \in NodesOf(graph) :
          /\ ~n.isContainer
          /\ ~IsNaN(n.time)
          /\ n \notin RangeOf(out.found)

\* C17: navigate(targetTime) returns the first leaf of the flattening whose
\* time is targetTime, and 'not found' when no leaf has that time; it never
\* returns a container.
C17_NavigateFirstLeafAtTime ==
    out.op = "navigate" =>
        LET nodes == CollectAllChildren(graph)
            hits  == {i \in DOMAIN nodes :
                         /\ ~nodes[i].isContainer
                         /\ ~IsNaN(out.targetTime)
                         /\ nodes[i].time = out.targetTime}
        IN  IF hits = {} THEN out.found = NotFound
            ELSE /\ out.found = <<nodes[MinOf(hits)]>>
                 /\ ~out.found[1].isContainer

\* navigate has returned the first of two leaves of one time, in a graph
\* whose root derives that same time from them.
C17_Witness ==
    /\ out.op = "navigate"
    /\ out.found # NotFound
    /\ graph.time = Undefined
    /\ TimeOf(graph) = out.targetTime
    /\ Cardinality({n \in NodesOf(graph) :
                        ~n.isContainer /\ n.time = out.targetTime}) = 2

\* C18: findDailyNote(date) returns the file of the first leaf find returns
\* for date, or none when find returns nothing; hasDailyNote(date) is true
\* exactly when findDailyNote(date) is not none.
C18_FindDailyNoteIsFirstFound ==
    LET results == TimewalkFind(timewalkRoot, res.date, tz)
    IN  /\ res.op = "find" =>
              res.file = (IF results = <<>> THEN Null ELSE results[1].id)
        /\ res.op = "has" =>
              (res.value <=> FindDailyNote(timewalkRoot, res.date, tz) # Null)

\* findDailyNote has returned the first of two files of one day.
C18_Witness ==
    /\ res.op = "find"
    /\ res.file # Null
    /\ Len(TimewalkFind(timewalkRoot, res.date, tz)) = 2

\* C19: with an invalid target date navigate returns 'not found' and find an
\* empty list, on every graph; on the same graph findDailyNote returns none,
\* hasDailyNote false, and getPreviousDailyNote and getNextDailyNote none.
C19_InvalidDateFindsNothing ==
    (out.op \in {"navigate", "find"} /\ IsNaN(out.targetTime)) =>
        /\ out.found = <<>>
        /\ FindDailyNote(graph, out.targetTime, tz) = Null
        /\ ~HasDailyNote(graph, out.targetTime, tz)
        /\ GetPreviousDailyNote(graph, out.targetTime, tz) = Null
        /\ GetNextDailyNote(graph, out.targetTime, tz) = Null

\* navigate has been given an invalid date on a graph that holds a leaf
\* with an invalid date next to a leaf with a valid one.
C19_Witness ==
    /\ out.op = "navigate"
    /\ IsNaN(out.targetTime)
    /\ \E m, n \in NodesOf(graph) :
          /\ ~m.isContainer /\ IsNaN(m.time)
          /\ ~n.isContainer /\ ~IsNaN(n.time) /\ n.time # 0

\* The valid times of the leaves below a node, at any depth.
LeafTimesBelow(node) ==
    {n.time : n \in {m \in NodesOf(node) : ~m.isContainer /\ ~IsNaN(m.time)}}

\* C20: time() of a container is its explicit time when it has one, and
\* else the time of its earliest leaf descendant.
C20_ContainerTimeIsEarliestLeaf ==
    out.op = "time" =>
        IF out.node.time # Undefined THEN out.time = out.node.time
        ELSE LeafTimesBelow(out.node) # {} =>
                out.time = MinOf(LeafTimesBelow(out.node))

(***************************************************************************)
(* The flags of the timeline's items.                                      *)
(***************************************************************************)
\* A note's date is the UTC midnight of its day; a supplied date is a moment
\* of the user's zone and denotes the local day it falls on.
OnDayOfNote(item, date, zone) ==
    /\ ~IsNaN(date)
    /\ DayNumber(item.date) = LocalDay(date, zone)

\* C21: every note item has isActive true exactly when its date is the same
\* calendar day as the supplied active date, and isCurrent true exactly when
\* its date is the same calendar day as the supplied current date; gap items
\* carry neither flag.
C21_FlagsMarkTheDay ==
    IsTimeline =>
        \A i \in DOMAIN res.items :
            LET item == res.items[i]
            IN  IF item.type = "note"
                THEN /\ item.isActive = OnDayOfNote(item, res.activeDate, tz)
                     /\ item.isCurrent = OnDayOfNote(item, res.currentDate, tz)
                ELSE DOMAIN item = {"type", "date", "gapCount"}

C21_Witness ==
    /\ IsTimeline
    /\ tz # 0
    /\ \E i, j, k \in DOMAIN res.items :
          /\ res.items[i].type = "note"
          /\ res.items[i].isActive
          /\ ~res.items[i].isCurrent
          /\ res.items[j].type = "note"
          /\ res.items[j].isCurrent
          /\ ~res.items[j].isActive
          /\ res.items[k].type = "gap"

(***************************************************************************)
(* Local time.                                                             *)
(***************************************************************************)
\* The leaves of the index that rebuild() put on the day of a day number.
LeavesOnDay(root, day) ==
    {n \in LeavesOf(root) : DayNumber(n.time) = day}

\* C25: for every local UTC offset, an item that rebuild indexed under
\* calendar day D is found by findDailyNote / hasDailyNote when queried with
\* a date that denotes day D in the user's local time, and the timeline note
\* for that item carries the same day D.
C25_FoundOnItsLocalDay ==
    /\ (res.op \in {"find", "has"} /\ ~IsNaN(res.date)) =>
          LET indexed == LeavesOnDay(timewalkRoot, LocalDay(res.date, tz))
          IN  indexed # {} =>
                 IF res.op = "find"
                 THEN \E n \in indexed : res.file = n.id
                 ELSE res.value
    /\ IsTimeline =>
          \A n \in LeavesOf(timewalkRoot) :
              \E i \in DOMAIN res.items :
                  /\ res.items[i].type = "note"
                  /\ res.items[i].file = n.id
                  /\ FormatUTC(res.items[i].date) = CivilOf(DayNumber(n.time))

\* C26: for every local UTC offset, when the active date passed to
\* buildGlobalTimeline is the value getDailyNoteDate returned for an indexed
\* file, the note items of that file's day, and only those, are flagged
\* isActive.
C26_ActiveIsTheFilesDay ==
    IsTimeline =>
        \A path \in DOMAIN waypointMap :
            GetDailyNoteDate(waypointMap, path, tz) = res.activeDate =>
                \A i \in DOMAIN res.items :
                    res.items[i].type = "note" =>
                        (res.items[i].isActive <=>
                            DayNumber(res.items[i].date)
                                = DayNumber(TimeOf(waypointMap[path])))

\* C27: getNextDailyNote(date) returns an item whose calendar day is strictly
\* later than date and getPreviousDailyNote(date) one strictly earlier, also
\* when several indexed items share one calendar day (so that opening 'next'
\* again and again ends at the last item, and 'previous' at the first).
C27_AdjacentIsStrictlyBeyond ==
    (res.op \in {"previous", "next"} /\ res.file # Null) =>
        \A n \in LeavesOf(timewalkRoot) :
            n.id = res.file =>
                IF res.op = "next"
                THEN DayNumber(n.time) > LocalDay(res.date, tz)
                ELSE DayNumber(n.time) < LocalDay(res.date, tz)


(***************************************************************************)
(* Graphs already handed out, and traversals in progress.                  *)
(***************************************************************************)
\* The file renamed in this step, if one was: the position in the listing.
RenamedInStep ==
    {i \in DOMAIN vault : Len(vault') = Len(vault) /\ vault'[i] # vault[i]}

\* A leaf after a step is the leaf before it: the same date, and the same
\* path unless its file is the one renamed in the step.
SameLeaf(before, after) ==
    /\ after.isContainer = before.isContainer
    /\ after.time = before.time
    /\ after.kids = before.kids
    /\ \/ after.id = before.id
       \/ \E i \in RenamedInStep :
             before.id = vault[i] /\ after.id = vault'[i]

TimesOf(nodes) == [k \in DOMAIN nodes |-> TimeOf(nodes[k])]

\* C23: rebuild never changes a graph built before.  As long as a caller's
\* reference points to the same Timewalk, that Timewalk has the same root
\* with the same children under the same dates, hence the same flattening
\* and the same answers to traverse, whatever runs in between; the path a
\* leaf answers with is the path its file has, so it changes only when the
\* vault renames that file.
C23_HeldGraphIsFrozen ==
    [][(held # NoTimewalk /\ held' # NoTimewalk /\ held'.id = held.id)
         => /\ [held'.root EXCEPT !.kids = <<>>] = [held.root EXCEPT !.kids = <<>>]
            /\ Len(held'.root.kids) = Len(held.root.kids)
            /\ \A k \in DOMAIN held.root.kids :
                  SameLeaf(held.root.kids[k], held'.root.kids[k])
            /\ RenamedInStep = {} => held'.root = held.root
            /\ \A direction \in Directions :
                  {TimesOf(nodes) : nodes \in TraverseOutcomes(held'.root, direction,
                                                              "leaves", FALSE)}
                    = {TimesOf(nodes) : nodes \in TraverseOutcomes(held.root, direction,
                                                                  "leaves", FALSE)}]_vars

\* A caller holds a Timewalk, and rebuilds since have left the service with
\* another object and another graph.
C23_Witness ==
    /\ res.op = "rebuild"
    /\ held # NoTimewalk
    /\ held.id # timewalkId
    /\ held.root # timewalkRoot
    /\ Len(held.root.kids) > 0

NoDuplicates(s) == \A i, j \in DOMAIN s : s[i] = s[j] => i = j

\* C24: one traverse call visits the nodes of the graph that was current when
\* it started, those that pass the filter, each once and in sorted order,
\* even when the callback rebuilds the graph on the way.
C24_TraverseVisitsItsSnapshot ==
    (res.op = "traverse" /\ res.done)
        => /\ res.visited \in TraverseOutcomes(res.root, res.direction,
                                                res.filter, FALSE)
           /\ NoDuplicates(res.visited)

\* A finished traversal of two nodes or more during which the callback
\* rebuilt the graph into a different one.
C24_Witness ==
    /\ res.op = "traverse"
    /\ res.done
    /\ Len(res.visited) >= 2
    /\ timewalkRoot # res.root

(***************************************************************************)
(* The plugin: vault events, navbars and document navigations.             *)
(***************************************************************************)
AfterVaultEvent == pres.op = "vault"

\* C22: the handlers of "create", "rename" and "delete" call rebuild() and
\* only then redraw the navbars, so that when such a handler has run, the
\* graph and the cache are those a service built on the listing of that
\* moment gives, every navbar that shows the timeline shows the one of that
\* graph for its date, and the date of every navbar is the day of its
\* view's file when that file is a daily note.  It fails when the listing
\* call of rebuild() throws: the cache is empty, the graph is the one from
\* before the event and the navbars are not drawn.
C22_EventsRebuildThenRedraw ==
    AfterVaultEvent =>
        \E index \in {RebuildIndex(vault, EmptyRoot, EmptyMap)} :
            /\ timewalkRoot = index.root
            /\ waypointMap = index.map
            /\ \A id \in DOMAIN navbars :
                  /\ navbars[id].mode = "global"
                        => navbars[id].items =
                             BuildGlobalTimeline(index.root, navbars[id].date,
                                                 PluginNow(tz), tz)
                  /\ \E fileDate \in {FileDate(index.map,
                                                 views[navbars[id].view].file, tz)} :
                        fileDate # NullMoment
                            => FormatLocal(navbars[id].date, tz)
                                 = FormatLocal(fileDate, tz)

NavbarsOf(v) == {id \in DOMAIN navbars : navbars[id].view = v}

\* C28: a view has at most one navbar element in its title bar and at most
\* one navbar in the registry, whatever the order in which suspended
\* addDailyOrbit calls for it go on.
C28_OneNavbarPerView ==
    \A v \in Views :
        /\ Len(views[v].dom) <= 1
        /\ Cardinality(NavbarsOf(v)) <= 1

\* C29: removeNavbar is called only with the id of a navbar of the registry.
C29_RemoveNavbarFindsItsNavbar ==
    pres.removed # NoId => pres.registered

\* C30: at most one timeout is set, at most one DocumentNavigation is
\* registered, and none is registered while the latest addDocumentNavigation
\* was for a file that is not a daily note.
C30_DocumentNavigationFollowsTheFile ==
    /\ Cardinality(timers) <= 1
    /\ Cardinality(DOMAIN documentNavigations) <= 1
    /\ pres.docNavRun = "nonDaily" => documentNavigations = EmptyRegistry


====
